---- MODULE Spec2Model ----
(***************************************************************************)
(* Verification model of the spriggler decision-and-command engine:        *)
(*   - devices/power_state.py      (ensure_power_state and its helpers)    *)
(*   - devices/mock_device.py      (MockDevice driver)                     *)
(*   - devices/KASA_Powerbar.py    (KasaPowerbar driver, safety countdown) *)
(*   - controllers/environment_controller.py (EnvironmentController)       *)
(*                                                                         *)
(* Python values are modelled as follows.  A power state is "on" or "off"; *)
(* Optional[bool] adds "none".  A callable is "sync" (a plain function) or *)
(* "async" (a coroutine function); calling an async callable only creates  *)
(* a coroutine object: its body runs when the object is awaited, and the   *)
(* object itself is truthy.  Awaiting something that is not awaitable      *)
(* raises TypeError.                                                       *)
(***************************************************************************)
EXTENDS Integers, Sequences, FiniteSets, TLC

\* ------------------------------------------------------------------------
\* Python value helpers
\* ------------------------------------------------------------------------
None == "none"

States == {"on", "off"}

OptStates == States \cup {None}

Variants == {"sync", "async"}

ReaderKinds == {"none", "sync", "async"}

CommandKinds == {"sync", "async"}

\* What the body of the state reader does when it is executed.
ReadBehaviours == {"state", "null", "raise"}

\* What the body of the command does when it is executed: reach the desired
\* state, return without changing the device, or raise.
CommandBehaviours == {"ok", "stuck", "raise"}

\* ------------------------------------------------------------------------
\* devices/power_state.py
\* ------------------------------------------------------------------------

\* Does calling read_state() (and, in the async variant, awaiting an
\* awaitable result) execute the reader's body?
ReaderBodyRuns(variant, rk) ==
    \/ rk = "sync"
    \/ rk = "async" /\ variant = "async"

\* Mutant of _read_state: a read that raises is taken as "off".
ReadFailureAsOff(variant, rk, rb, st) ==
    IF rk = "none" THEN None
    ELSE IF ReaderBodyRuns(variant, rk)
         THEN CASE rb = "state" -> st
                [] rb = "null"  -> None
                [] rb = "raise" -> "off"
         ELSE "on"

\* _read_state_sync / _read_state_async: the Optional[bool] obtained from
\* one read.  st is the device's real state, rb the behaviour of the body.
\* In the sync variant an async reader yields a coroutine object, and
\* bool(coroutine) is True.
_read_state(variant, rk, rb, st) ==
    IF rk = "none" THEN None
    ELSE IF ReaderBodyRuns(variant, rk)
         THEN CASE rb = "state" -> st
                [] rb = "null"  -> None
                [] rb = "raise" -> None
         ELSE "on"

\* Mutant of _verify_state: a read back that raises is taken as "off".
VerifyFailureAsOff(variant, rk, rb, st) ==
    IF rk = "none" THEN None
    ELSE IF ReaderBodyRuns(variant, rk)
         THEN CASE rb = "state" -> st
                [] rb = "null"  -> None
                [] rb = "raise" -> "off"
         ELSE "on"

\* _verify_state_sync / _verify_state_async: the read back after command().
_verify_state(variant, rk, rb, st) ==
    IF rk = "none" THEN None
    ELSE IF ReaderBodyRuns(variant, rk)
         THEN CASE rb = "state" -> st
                [] rb = "null"  -> None
                [] rb = "raise" -> None
         ELSE "on"

\* Severity logged by _log_post_state ("none" when nothing is logged).
_log_post_state(desired, post, pre) ==
    IF post = None THEN None
    ELSE IF post # desired THEN "error"
    ELSE IF pre # None /\ post # pre THEN "info"
    ELSE "debug"

\* Does the statement `command()` / `await command()` execute the body?
CommandBodyRuns(variant, ck) ==
    \/ ck = "sync"
    \/ ck = "async" /\ variant = "async"

\* Does the statement `command()` / `await command()` raise?  The body may
\* raise; `await command()` on a plain function awaits its None result.
CommandRaises(variant, ck, cb) ==
    \/ CommandBodyRuns(variant, ck) /\ cb = "raise"
    \/ variant = "async" /\ ck = "sync"

\* Device state after the command statement.
StateAfterCommand(variant, ck, cb, desired, st) ==
    IF CommandBodyRuns(variant, ck) /\ cb = "ok" THEN desired ELSE st

\* Mutant of IsNoOp: the pre-read is ignored and the command always sent.
NoOpIgnoringPreState(pre_state, desired) == FALSE

\* The no-op test of ensure_power_state (lines 38 and 70).
IsNoOp(pre_state, desired) == pre_state # None /\ pre_state = desired

\* ensure_power_state (variant "sync") and ensure_power_state_async
\* (variant "async").  The result records what the caller gets and what the
\* call did: raised (an exception left the function; command_sent and
\* final_state are then not returned and carry fillers), reads (calls of
\* read_state), cmd_calls (calls of command), cmd_runs (executions of the
\* command body), state (the device state afterwards), log (severity of
\* _log_post_state).
ensure_power_state(variant, desired, rk, ck, st, rb1, cb, rb2) ==
    LET pre_state == _read_state(variant, rk, rb1, st)
        reads1 == IF rk = "none" THEN 0 ELSE 1
    IN  IF IsNoOp(pre_state, desired)
        THEN [raised |-> FALSE, command_sent |-> FALSE,
              final_state |-> pre_state, reads |-> reads1,
              cmd_calls |-> 0, cmd_runs |-> 0, state |-> st, log |-> None]
        ELSE LET st2 == StateAfterCommand(variant, ck, cb, desired, st)
                 runs == IF CommandBodyRuns(variant, ck) THEN 1 ELSE 0
             IN  IF CommandRaises(variant, ck, cb)
                 THEN [raised |-> TRUE, command_sent |-> FALSE,
                       final_state |-> None, reads |-> reads1,
                       cmd_calls |-> 1, cmd_runs |-> runs, state |-> st2,
                       log |-> None]
                 ELSE LET post_state == _verify_state(variant, rk, rb2, st2)
                      IN  [raised |-> FALSE, command_sent |-> TRUE,
                           final_state |-> post_state,
                           reads |-> reads1 + (IF rk = "none" THEN 0 ELSE 1),
                           cmd_calls |-> 1, cmd_runs |-> runs, state |-> st2,
                           log |-> IF ReaderBodyRuns(variant, rk)
                                      /\ rb2 = "raise"
                                   THEN "error"
                                   ELSE _log_post_state(desired, post_state,
                                                        pre_state)]

\* `await ensure_power_state(...)` as written in every driver: the sync
\* variant returns a PowerCommandResult, which is not awaitable, so the
\* await raises TypeError after the call has run; the async variant
\* returns a coroutine whose result the await delivers.
AwaitEnsure(variant, r) ==
    IF variant = "sync" THEN [r EXCEPT !.raised = TRUE,
                                       !.command_sent = FALSE,
                                       !.final_state = None]
    ELSE r

\* ------------------------------------------------------------------------
\* State
\* ------------------------------------------------------------------------
VARIABLES
    ps_in,              \* arguments and device behaviour of a direct ensure_power_state call
    last_call,          \* the last ensure_power_state call: <<>> or <<[who, in, out]>>
    mock_is_on,         \* MockDevice._is_on
    vesync_initialized, \* VesyncHumidifier._initialized
    vesync_on,          \* power state of the humidifier hardware
    kasa_initialized,   \* KasaPowerbar._initialized
    kasa_safety,        \* _safety_enforce, _safety_target_state, _safety_timeout_minutes
    kasa_outlet,        \* the outlet hardware: power state, countdown surface, rules
    kasa_requests,      \* requests the last turn_on / turn_off sent to the outlet
    kasa_result,        \* what the last turn_on / turn_off / is_on gave: <<>> or <<[desired, raised, ...]>>
    cfg,                \* the configuration, the device registry and the runtime settings
    ctl_status,         \* "unbuilt", "ready" (constructed), "error" (ValueError), "crashed"
    clock,              \* time.monotonic(), in seconds
    last_commands,      \* EnvironmentController._last_commands
    missing_reading_logs, \* EnvironmentController._missing_reading_logs (-1: no entry)
    last_property_logs, \* EnvironmentController._last_property_logs
    pc,                 \* "idle", or "eval" while evaluate() runs
    queue,              \* (environment, property) pairs evaluate() has still to visit
    devq,               \* controllers the current property has still to visit
    effq,               \* matching effects the current device has still to visit
    cur,                \* locals of evaluate(): property, mode, decision, value, device
    tracking_is_on,     \* TrackingDevice.is_on_state
    last_issue,         \* what the last step of the dispatch did (observation)
    last_eval,          \* what the last iteration of the property loop did (observation)
    failed_at,          \* per key: command and time of the last raise not yet followed by a return (observation)
    pass_done,          \* an evaluate() call has returned (observation)
    fn_in,              \* arguments drawn for a pure function
    fn_out,             \* <<>> or <<its result>>
    sp_pc,              \* where main() / Spriggler.run() stands
    sp_config,          \* Spriggler.config: runtime settings and definitions
    sp_devices,         \* Spriggler.devices
    sp_devices_by_id,   \* Spriggler._devices_by_id
    sp_sensors,         \* Spriggler.sensors
    sp_controller,      \* Spriggler.environment_controller: the settings it was built with
    sp_max_cycles,      \* the max_cycles argument of run()
    sp_cycle_count,     \* cycle_count of run()
    sp_trace,           \* polls, evaluations and sleeps begun and ended (observation)
    device_cache,       \* KasaPowerbar._device_cache
    strips,             \* the KasaPowerbar instances sharing that cache
    connections,        \* per connection object: its key, creator and update() calls (observation)
    detection_callbacks,   \* sensors.govee_utils._detection_callbacks
    shared_bleak_scanner,  \* sensors.govee_utils._shared_bleak_scanner
    last_dispatch       \* what the last _dispatch_detection call did (observation)

powerVars == <<ps_in, last_call, mock_is_on, vesync_initialized, vesync_on>>

kasaVars == <<kasa_initialized, kasa_safety, kasa_outlet, kasa_requests, kasa_result>>

ctlVars ==
    <<cfg, ctl_status, clock, last_commands, missing_reading_logs,
      last_property_logs, pc, queue, devq, effq, cur, tracking_is_on,
      last_issue, last_eval, failed_at, pass_done>>

fnVars == <<fn_in, fn_out>>

sprigglerVars ==
    <<sp_pc, sp_config, sp_devices, sp_devices_by_id, sp_sensors,
      sp_controller, sp_max_cycles, sp_cycle_count, sp_trace>>

cacheVars == <<device_cache, strips, connections>>

scannerVars == <<detection_callbacks, shared_bleak_scanner, last_dispatch>>

appVars == <<sprigglerVars, cacheVars, scannerVars>>

vars == <<powerVars, kasaVars, ctlVars, fnVars, appVars>>

\* ------------------------------------------------------------------------
\* devices/mock_device.py, devices/vesync_humidifier.py
\* ------------------------------------------------------------------------

\* What the body of VesyncHumidifier.is_on does when executed, given the
\* hardware behaviour rb: it raises before initialisation
\* (_ensure_initialized), and otherwise returns a bool or raises on a
\* transport error (it never returns None).
VesyncReadBehaviour(rb) ==
    IF ~vesync_initialized THEN "raise"
    ELSE IF rb = "null" THEN "state" ELSE rb

\* What the body of _async_turn_on / _async_turn_off does when executed.
VesyncCommandBehaviour(cb) == IF ~vesync_initialized THEN "raise" ELSE cb

CallInput(variant, desired, rk, ck, st, rb1, cb, rb2) ==
    [variant |-> variant, desired |-> desired, rk |-> rk, ck |-> ck,
     st |-> st, rb1 |-> rb1, cb |-> cb, rb2 |-> rb2]

CallInputs ==
    [variant : Variants, desired : States, rk : ReaderKinds, ck : CommandKinds,
     st : States, rb1 : ReadBehaviours, cb : CommandBehaviours,
     rb2 : ReadBehaviours]

CallRecord(who, in, out) == [who |-> who, in |-> in, out |-> out]

ensure_power_state_on(in) ==
    ensure_power_state(in.variant, in.desired, in.rk, in.ck, in.st, in.rb1,
                       in.cb, in.rb2)

PowerInit ==
    /\ ps_in \in CallInputs
    /\ last_call = <<>>
    /\ mock_is_on = "off"
    /\ vesync_initialized \in BOOLEAN
    /\ vesync_on \in States

\* A direct call of ensure_power_state / ensure_power_state_async with the
\* reader, command and device behaviour drawn in ps_in.
EnsurePowerStateCall ==
    /\ last_call' = <<CallRecord("direct", ps_in, ensure_power_state_on(ps_in))>>
    /\ UNCHANGED <<ps_in, mock_is_on, vesync_initialized, vesync_on, kasaVars, ctlVars, fnVars,
                   appVars>>

\* MockDevice.turn_on / turn_off: `return await ensure_power_state(...)`
\* with read_state=self.is_on and command=self._do_turn_on/_do_turn_off,
\* all three coroutine functions.  Their bodies never raise.  The state
\* asked for is ps_in.desired.
MockDeviceTurn ==
    LET in == CallInput("sync", ps_in.desired, "async", "async", mock_is_on,
                        "state", "ok", "state")
        out == AwaitEnsure("sync", ensure_power_state_on(in))
    IN  /\ last_call' = <<CallRecord("mock", in, out)>>
        /\ mock_is_on' = out.state
        /\ UNCHANGED <<ps_in, vesync_initialized, vesync_on, kasaVars, ctlVars, fnVars,
                   appVars>>

\* VesyncHumidifier.initialize: login and device selection may fail.
VesyncInitialize ==
    /\ ~vesync_initialized
    /\ vesync_initialized' \in BOOLEAN
    /\ UNCHANGED <<ps_in, last_call, mock_is_on, vesync_on, kasaVars, ctlVars, fnVars,
                   appVars>>

\* VesyncHumidifier.turn_on / turn_off, asked for ps_in.desired on hardware
\* that behaves as ps_in says.
VesyncTurn ==
    LET in == CallInput("sync", ps_in.desired, "async", "async", vesync_on,
                        VesyncReadBehaviour(ps_in.rb1),
                        VesyncCommandBehaviour(ps_in.cb),
                        VesyncReadBehaviour(ps_in.rb2))
        out == AwaitEnsure("sync", ensure_power_state_on(in))
    IN  /\ last_call' = <<CallRecord("vesync", in, out)>>
        /\ vesync_on' = out.state
        /\ UNCHANGED <<ps_in, mock_is_on, vesync_initialized, kasaVars, ctlVars, fnVars,
                   appVars>>

NextPower ==
    \/ EnsurePowerStateCall
    \/ MockDeviceTurn
    \/ VesyncInitialize
    \/ VesyncTurn

\* ------------------------------------------------------------------------
\* devices/KASA_Powerbar.py
\* ------------------------------------------------------------------------

\* Safety timeouts are kept in hundredths of a minute, so that 0.5 minutes
\* is 50 and the truncation of int(minutes * 60) is visible.
CentiMinute == 100

SecondsPerMinute == 60

\* Values of control...safety.timeout_minutes tried (in hundredths).
TimeoutChoices == {0, 1, 50, 500}

\* Values of control...safety.target_state tried.
TargetStateChoices == {None, "on", "off", "auto"}

SafetyConfigs ==
    [enforce : BOOLEAN, target_state : TargetStateChoices,
     has_timeout : BOOLEAN, timeout : TimeoutChoices]

\* A countdown rule as add_rule programs it.
Rule(delay, act) == [delay |-> delay, act |-> act]

\* _safety_settings: <<target, timeout_seconds, enforce>>, target None when
\* the safety is disabled.
_safety_settings(safety) ==
    IF ~safety.enforce THEN [target |-> None, timeout_seconds |-> 0, enforce |-> FALSE]
    ELSE IF safety.target_state = None
         THEN [target |-> None, timeout_seconds |-> 0, enforce |-> FALSE]
    ELSE IF safety.target_state \notin {"on", "off"}
         THEN [target |-> None, timeout_seconds |-> 0, enforce |-> FALSE]
    ELSE IF ~safety.has_timeout
         THEN [target |-> None, timeout_seconds |-> 0, enforce |-> FALSE]
    ELSE IF safety.timeout <= 0
         THEN [target |-> None, timeout_seconds |-> 0, enforce |-> FALSE]
    ELSE [target |-> safety.target_state,
          timeout_seconds |-> (safety.timeout * SecondsPerMinute) \div CentiMinute,
          enforce |-> TRUE]

\* The parts of a `control` block that _resolve_safety_config looks at, for
\* the outlet of the device.  own: what control.outlets (a dict or a list)
\* holds for the outlet: nothing, a value that is not a dict, an entry
\* without a dict under "safety", or an entry with one.  shared: is
\* control.safety a dict?  override: what control.safety.outlets (a dict or
\* a list) holds for the outlet.  named: what control.safety holds under
\* the outlet's name as key.
Control(own_form, own, shared, override_form, override, named) ==
    [own_form |-> own_form, own |-> own, shared |-> shared,
     override_form |-> override_form, override |-> override, named |-> named]

BlockForms == {"dict", "list"}

OwnEntries == {"absent", "nodict", "nosafety", "safety"}

BlockEntries == {"absent", "nodict", "dict"}

Controls ==
    { Control(f1, o, s, f2, v, n) :
        f1 \in BlockForms, o \in OwnEntries, s \in BOOLEAN,
        f2 \in BlockForms, v \in BlockEntries, n \in BlockEntries }

\* _extract_outlet_config: the outlet's entry of control.outlets when it is
\* a dict (looked up by key in a dict, by "outlet_name" in a list).
_extract_outlet_config(control) ==
    IF control.own_form = "dict"
    THEN control.own \in {"nosafety", "safety"}
    ELSE control.own \in {"nosafety", "safety"}

\* _match_outlet_from_block: the outlet's entry of control.safety.outlets.
_match_outlet_from_block(control) ==
    IF control.override_form = "dict"
    THEN control.override = "dict"
    ELSE control.override = "dict"

\* Mutant of _resolve_safety_config: the shared block is returned before
\* its per-outlet entries are looked at.
ResolveSharedFirst(control) ==
    IF _extract_outlet_config(control) /\ control.own = "safety" THEN "own"
    ELSE IF control.shared THEN "shared"
    ELSE "none"

\* _resolve_safety_config: which block is returned ("none": the empty
\* config).
_resolve_safety_config(control) ==
    IF _extract_outlet_config(control) /\ control.own = "safety" THEN "own"
    ELSE IF control.shared
    THEN IF _match_outlet_from_block(control) THEN "override"
         ELSE IF control.named = "dict" THEN "named"
         ELSE "shared"
    ELSE "none"

\* _countdown_module: does the outlet expose the countdown module?
_countdown_module(outlet) == outlet.has_module

\* _clear_countdown_rules on an outlet whose delete request behaves as
\* clear_ok says: the requests sent and the rules left.
_clear_countdown_rules(outlet, clear_ok) ==
    IF ~_countdown_module(outlet) THEN [requests |-> <<>>, rules |-> outlet.rules]
    ELSE IF ~outlet.has_query_helper THEN [requests |-> <<>>, rules |-> outlet.rules]
    ELSE [requests |-> <<[op |-> "delete_all_rules", delay |-> 0, act |-> 0]>>,
          rules |-> IF clear_ok THEN <<>> ELSE outlet.rules]

\* _program_countdown_failsafe: clear, then add_rule.
_program_countdown_failsafe(outlet, target_state, timeout_seconds, clear_ok, add_ok) ==
    IF ~_countdown_module(outlet) THEN [requests |-> <<>>, rules |-> outlet.rules]
    ELSE LET cleared == _clear_countdown_rules(outlet, clear_ok)
             act == IF target_state = "on" THEN 1 ELSE 0
         IN  IF ~outlet.has_query_helper THEN cleared
             ELSE [requests |-> Append(cleared.requests,
                                       [op |-> "add_rule", delay |-> timeout_seconds,
                                        act |-> act]),
                   rules |-> IF add_ok
                             THEN Append(cleared.rules, Rule(timeout_seconds, act))
                             ELSE cleared.rules]

\* _apply_safety_programming for the commanded state.
_apply_safety_programming(outlet, safety, command_state, clear_ok, add_ok) ==
    LET settings == _safety_settings(safety)
    IN  IF ~settings.enforce \/ settings.target = None
        THEN _clear_countdown_rules(outlet, clear_ok)
        ELSE IF command_state = settings.target
        THEN _clear_countdown_rules(outlet, clear_ok)
        ELSE _program_countdown_failsafe(outlet, settings.target,
                                         settings.timeout_seconds, clear_ok, add_ok)

\* What the body of KasaPowerbar.is_on does when executed: it returns a
\* bool, or raises (before initialisation, or when update() fails).
KasaReadBehaviours == {"state", "raise"}

KasaReadBehaviour(rb) == IF ~kasa_initialized THEN "raise" ELSE rb

\* Mutant of _ensure_initialized: the flag is not looked at.
EnsureInitializedPasses(initialized) == None

\* _ensure_initialized: the exception it raises, None when it returns.
_ensure_initialized(initialized) ==
    IF ~initialized THEN "RuntimeError" ELSE None

\* KasaPowerbar.is_on called directly: the guard, then update() and the
\* outlet's is_on.  Past the guard, an instance that has not connected has
\* no device to update.
is_on(initialized, outlet, rb) ==
    LET guard == _ensure_initialized(initialized)
    IN  IF guard # None
        THEN [raised |-> TRUE, error |-> guard, state |-> None]
        ELSE IF ~initialized
        THEN [raised |-> TRUE, error |-> "AttributeError", state |-> None]
        ELSE IF rb = "raise"
        THEN [raised |-> TRUE, error |-> "update", state |-> None]
        ELSE [raised |-> FALSE, error |-> None, state |-> outlet.on]

\* _set_power_state(desired_state): the outcome of turn_on / turn_off.
\* ensure_power_state is the sync helper, given the coroutine functions
\* is_on and _command, and its result is awaited.
_set_power_state(desired, rb1, cb, rb2, clear_ok, add_ok) ==
    IF _ensure_initialized(kasa_initialized) # None
    THEN [raised |-> TRUE, error |-> _ensure_initialized(kasa_initialized),
          command_sent |-> FALSE, final_state |-> None,
          cmd_runs |-> 0, outlet |-> kasa_outlet, requests |-> <<>>]
    ELSE LET in == CallInput("sync", desired, "async", "async", kasa_outlet.on,
                             KasaReadBehaviour(rb1), cb, KasaReadBehaviour(rb2))
             helper == ensure_power_state_on(in)
             result == AwaitEnsure("sync", helper)
             powered == [kasa_outlet EXCEPT !.on = result.state]
         IN  IF result.raised
             THEN [raised |-> TRUE,
                   error |-> IF helper.raised THEN "command" ELSE "TypeError",
                   command_sent |-> FALSE, final_state |-> None,
                   cmd_runs |-> result.cmd_runs, outlet |-> powered,
                   requests |-> <<>>]
             ELSE LET safety == _apply_safety_programming(powered, kasa_safety,
                                                          desired, clear_ok, add_ok)
                  IN  [raised |-> FALSE, error |-> None,
                       command_sent |-> result.command_sent,
                       final_state |-> result.final_state,
                       cmd_runs |-> result.cmd_runs,
                       outlet |-> [powered EXCEPT !.rules = safety.rules],
                       requests |-> safety.requests]

\* The outlet as the process finds it: it may be on or off, may or may not
\* expose the countdown surface, and may hold a rule programmed earlier.
Outlets ==
    [on : States, has_module : BOOLEAN, has_query_helper : BOOLEAN,
     rules : {<<>>, <<Rule(SecondsPerMinute, 0)>>}]

KasaInit ==
    /\ kasa_initialized = FALSE
    /\ kasa_safety \in SafetyConfigs
    /\ kasa_outlet \in Outlets
    /\ kasa_requests = <<>>
    /\ kasa_result = <<>>

\* KasaPowerbar.initialize: discovery or outlet selection may fail.
KasaInitialize ==
    /\ ~kasa_initialized
    /\ kasa_initialized' \in BOOLEAN
    /\ UNCHANGED <<kasa_safety, kasa_outlet, kasa_requests, kasa_result, powerVars, ctlVars, fnVars,
                   appVars>>

\* KasaPowerbar.turn_on / turn_off.
KasaTurn ==
    \E desired \in States, rb1 \in KasaReadBehaviours, cb \in CommandBehaviours,
       rb2 \in KasaReadBehaviours, clear_ok \in BOOLEAN, add_ok \in BOOLEAN :
        LET r == _set_power_state(desired, rb1, cb, rb2, clear_ok, add_ok)
        IN  /\ kasa_outlet' = r.outlet
            /\ kasa_requests' = r.requests
            /\ kasa_result' = <<[desired |-> desired, raised |-> r.raised,
                                 error |-> r.error,
                                 command_sent |-> r.command_sent,
                                 final_state |-> r.final_state,
                                 cmd_runs |-> r.cmd_runs,
                                 pre_state |-> kasa_outlet.on,
                                 read |-> KasaReadBehaviour(rb1)]>>
            /\ UNCHANGED <<kasa_initialized, kasa_safety, powerVars, ctlVars, fnVars,
                   appVars>>

\* KasaPowerbar.is_on called directly; no state is commanded.
KasaIsOn ==
    /\ \E rb \in KasaReadBehaviours :
          LET r == is_on(kasa_initialized, kasa_outlet, rb)
          IN  kasa_result' = <<[desired |-> None, raised |-> r.raised,
                                error |-> r.error,
                                command_sent |-> FALSE,
                                final_state |-> r.state,
                                cmd_runs |-> 0,
                                pre_state |-> kasa_outlet.on,
                                read |-> KasaReadBehaviour(rb)]>>
    /\ UNCHANGED <<kasa_initialized, kasa_safety, kasa_outlet, kasa_requests,
                   powerVars, ctlVars, fnVars, appVars>>

\* The outlet hardware: a countdown rule expires and switches the outlet.
CountdownFires ==
    /\ kasa_outlet.rules # <<>>
    /\ kasa_outlet' = [kasa_outlet EXCEPT
                          !.on = IF kasa_outlet.rules[1].act = 1 THEN "on" ELSE "off",
                          !.rules = Tail(kasa_outlet.rules)]
    /\ UNCHANGED <<kasa_initialized, kasa_safety, kasa_requests, kasa_result, powerVars, ctlVars, fnVars,
                   appVars>>

NextKasa ==
    \/ KasaInitialize
    \/ KasaTurn
    \/ KasaIsOn
    \/ CountdownFires

\* ------------------------------------------------------------------------
\* controllers/environment_controller.py: configuration
\* ------------------------------------------------------------------------
Decisions == {"increase", "decrease", "stable"}

Commands == {"turn_on", "turn_off"}

PropertyNames == {"temperature", "humidity"}

DeviceIds == {"dev1", "dev2"}

SensorIds == {"s1", "s2"}

Keys == DeviceIds \X PropertyNames

\* str.lower() on the strings a policy or a literal target may hold.
Lower(v) ==
    CASE v = "ON" -> "on"
      [] v = "On" -> "on"
      [] v = "OFF" -> "off"
      [] v = "Off" -> "off"
      [] OTHER -> v

\* An effect of a device definition; has_policy is FALSE when the effect
\* carries no 'policy' mapping (policy is then the empty mapping).
Effect(property, policy) == [property |-> property, has_policy |-> TRUE, policy |-> policy]

EffectWithoutPolicy(property) ==
    [property |-> property, has_policy |-> FALSE, policy |-> <<>>]

PolicyHeat == [increase |-> "on", stable |-> "off", decrease |-> "off"]

PolicyCool == [increase |-> "Off", stable |-> "ignore", decrease |-> "ON"]

PolicyNoStable == [increase |-> "on", decrease |-> "off"]

\* A schedule target for a property: absent from the targets mapping,
\* present but falsy ("empty"), a literal string, or a {min, max} range in
\* which either bound may be missing.
NoTarget == [kind |-> "absent", state |-> None, has_min |-> FALSE, min |-> 0,
             has_max |-> FALSE, max |-> 0]

EmptyTarget == [NoTarget EXCEPT !.kind = "empty"]

Literal(state) == [NoTarget EXCEPT !.kind = "literal", !.state = state]

Range(has_min, min, has_max, max) ==
    [kind |-> "range", state |-> None, has_min |-> has_min, min |-> min,
     has_max |-> has_max, max |-> max]

\* _device_effects: the definition's own effects, else the defaults declared
\* for its 'what', else none.  An undefined device has no effects.
_device_effects(config, device_id) ==
    LET definition == config.definitions[device_id]
    IN  IF ~definition.defined THEN <<>>
        ELSE IF definition.effects # <<>> THEN definition.effects
        ELSE IF definition.what \in DOMAIN config.defaults
        THEN config.defaults[definition.what]
        ELSE <<>>

MatchingEffects(effects, property_name) ==
    SelectSeq(effects, LAMBDA effect : effect.property = property_name)

\* Mutant of EffectIncomplete: only the presence of a policy is checked.
EffectIncompleteKeysUnchecked(effect) == ~effect.has_policy

\* Lines 88-101: a matching effect without a policy mapping, or whose
\* policy lacks one of the required decisions.
EffectIncomplete(effect) ==
    \/ ~effect.has_policy
    \/ Decisions \ DOMAIN effect.policy # {}

\* Mutant of ControllerInvalid: a controller whose effects hold none for
\* the property is accepted.
ControllerInvalidPermissive(config, property_name, device_id) ==
    LET effects == _device_effects(config, device_id)
        matching_effects == MatchingEffects(effects, property_name)
    IN  \/ effects = <<>>
        \/ \E i \in 1..Len(matching_effects) : EffectIncomplete(matching_effects[i])

\* Lines 69-101 for one controller of one property: does it add an error?
ControllerInvalid(config, property_name, device_id) ==
    LET effects == _device_effects(config, device_id)
        matching_effects == MatchingEffects(effects, property_name)
    IN  \/ effects = <<>>
        \/ matching_effects = <<>>
        \/ \E i \in 1..Len(matching_effects) : EffectIncomplete(matching_effects[i])

\* _validate_configuration: TRUE when it raises ValueError.
_validate_configuration(config) ==
    \E e \in 1..Len(config.environments) :
        \E p \in 1..Len(config.environments[e].properties) :
            LET property_config == config.environments[e].properties[p]
            IN  \E c \in 1..Len(property_config.controllers) :
                    ControllerInvalid(config, property_config.name,
                                      property_config.controllers[c])

\* ------------------------------------------------------------------------
\* controllers/environment_controller.py: decision helpers
\* ------------------------------------------------------------------------

\* Times of day are counted in half minutes, so that a time inside a minute
\* differs from the HH:MM boundary itself; windows are given in minutes.
HalfMinutes == 2

\* Mutant of _time_in_range: the window over midnight is not recognised.
TimeInRangeNoWrap(start, end, now) ==
    start * HalfMinutes <= now /\ now <= end * HalfMinutes

\* Mutant of _time_in_range: the end of a window over midnight is excluded.
TimeInRangeEndExcluded(start, end, now) ==
    IF start <= end
    THEN start * HalfMinutes <= now /\ now <= end * HalfMinutes
    ELSE now >= start * HalfMinutes \/ now < end * HalfMinutes

\* _time_in_range for a well-formed HH:MM-HH:MM window.
_time_in_range(start, end, now) ==
    IF start <= end
    THEN start * HalfMinutes <= now /\ now <= end * HalfMinutes
    ELSE now >= start * HalfMinutes \/ now <= end * HalfMinutes

\* One iteration of the loop of _select_schedule: is the schedule taken?
SchedulePasses(config, property_name, schedule_id, now) ==
    /\ schedule_id \in DOMAIN config.schedules
    /\ LET schedule == config.schedules[schedule_id]
       IN  /\ schedule.has_range =>
                  _time_in_range(schedule.start, schedule.end, now)
           /\ schedule.targets[property_name].kind # "absent"

\* _select_schedule: the index in schedule_ids of the first schedule that
\* passes, 0 when there is none.
RECURSIVE FirstPassing(_, _, _, _, _)
FirstPassing(config, property_name, schedule_ids, now, i) ==
    IF i > Len(schedule_ids) THEN 0
    ELSE IF SchedulePasses(config, property_name, schedule_ids[i], now) THEN i
    ELSE FirstPassing(config, property_name, schedule_ids, now, i + 1)

\* Mutant of _select_schedule: the last schedule that passes is returned.
SelectLastSchedule(config, property_name, schedule_ids, now) ==
    LET passing == { i \in 1..Len(schedule_ids) :
                       SchedulePasses(config, property_name, schedule_ids[i], now) }
    IN  IF passing = {} THEN 0
        ELSE CHOOSE i \in passing : \A j \in passing : j <= i

_select_schedule(config, property_name, schedule_ids, now) ==
    FirstPassing(config, property_name, schedule_ids, now, 1)

\* A sensor reading for a property.
Absent == [kind |-> "absent", v |-> 0]

Null == [kind |-> "null", v |-> 0]

NonNumeric == [kind |-> "text", v |-> 0]

Num(v) == [kind |-> "num", v |-> v]

\* The values list built by _aggregate_sensor_values.
RECURSIVE SensorValues(_, _, _)
SensorValues(sensors, readings, i) ==
    IF i > Len(sensors) THEN <<>>
    ELSE LET reading == readings[sensors[i]]
             rest == SensorValues(sensors, readings, i + 1)
         IN  IF reading.kind = "num" THEN <<reading.v>> \o rest ELSE rest

RECURSIVE Sum(_)
Sum(values) == IF values = <<>> THEN 0 ELSE values[1] + Sum(Tail(values))

RECURSIVE Gcd(_, _)
Gcd(a, b) == IF b = 0 THEN a ELSE Gcd(b, a % b)

\* A rational kept in lowest terms with a positive denominator.
Fraction(num, den) ==
    LET g == Gcd(IF num < 0 THEN -num ELSE num, den)
    IN  [num |-> num \div g, den |-> den \div g]

NoValue == [num |-> 0, den |-> 0]

\* Mutant of _aggregate_sensor_values: the sum is divided by the number of
\* sensors configured.
AggregateOverConfigured(sensors, readings) ==
    LET values == SensorValues(sensors, readings, 1)
    IN  IF values = <<>> THEN NoValue ELSE Fraction(Sum(values), Len(sensors))

\* Mutant of _aggregate_sensor_values: an empty list of values gives 0.
AggregateEmptyAsZero(sensors, readings) ==
    LET values == SensorValues(sensors, readings, 1)
    IN  IF values = <<>> THEN Fraction(0, 1) ELSE Fraction(Sum(values), Len(values))

\* _aggregate_sensor_values: the mean of the values, NoValue for None.
_aggregate_sensor_values(sensors, readings) ==
    LET values == SensorValues(sensors, readings, 1)
    IN  IF values = <<>> THEN NoValue ELSE Fraction(Sum(values), Len(values))

\* Mutant of _decision: the maximum is tested with >= instead of >.
DecisionMaxInclusive(value, target_range) ==
    IF target_range.has_min /\ value.num < target_range.min * value.den
    THEN "increase"
    ELSE IF target_range.has_max /\ value.num >= target_range.max * value.den
    THEN "decrease"
    ELSE "stable"

\* _decision on a value num/den.
_decision(value, target_range) ==
    IF target_range.has_min /\ value.num < target_range.min * value.den
    THEN "increase"
    ELSE IF target_range.has_max /\ value.num > target_range.max * value.den
    THEN "decrease"
    ELSE "stable"

\* Mutant of _determine_command: the policy value is compared as written.
DetermineCommandCaseSensitive(decision, effect) ==
    IF ~effect.has_policy THEN "raise"
    ELSE IF decision \notin DOMAIN effect.policy THEN "raise"
    ELSE LET desired == effect.policy[decision]
         IN  IF desired = "on" THEN "turn_on"
             ELSE IF desired = "off" THEN "turn_off"
             ELSE None

\* _determine_command: "raise" stands for the RuntimeError of a missing
\* policy and the KeyError of a missing decision.
_determine_command(decision, effect) ==
    IF ~effect.has_policy THEN "raise"
    ELSE IF decision \notin DOMAIN effect.policy THEN "raise"
    ELSE LET desired == Lower(effect.policy[decision])
         IN  IF desired = "on" THEN "turn_on"
             ELSE IF desired = "off" THEN "turn_off"
             ELSE None

\* round(property_value, 2), in hundredths.
Hundred == 100

Round2(value) == (2 * Hundred * value.num + value.den) \div (2 * value.den)

\* ------------------------------------------------------------------------
\* controllers/environment_controller.py: the configurations tried
\* ------------------------------------------------------------------------

\* Kinds of object the device registry holds for "dev1": no entry, an
\* object without turn_on / turn_off, an object whose command functions
\* behave in any way ("duck"), the TrackingDevice of the tests, and a
\* KasaPowerbar.
DeviceKinds == {"absent", "nomethod", "duck", "tracking", "kasa"}

Definition(what, effects) == [defined |-> TRUE, what |-> what, effects |-> effects]

Undefined == [defined |-> FALSE, what |-> None, effects |-> <<>>]

\* Definitions tried for "dev1", a controller of "temperature".
DefinitionChoices ==
    { Definition(None, <<Effect("temperature", PolicyHeat)>>),
      Definition(None, <<Effect("temperature", PolicyCool)>>),
      Definition("heater", <<>>),
      Definition(None, <<Effect("humidity", PolicyHeat),
                         Effect("temperature", PolicyHeat),
                         Effect("temperature", PolicyCool)>>),
      Definition(None, <<>>),
      Definition(None, <<Effect("humidity", PolicyHeat)>>),
      Definition(None, <<Effect("temperature", PolicyNoStable)>>),
      Definition(None, <<EffectWithoutPolicy("temperature")>>),
      Definition(None, <<Effect("temperature", PolicyHeat),
                         Effect("temperature", PolicyNoStable)>>),
      Undefined }

\* Targets tried for "temperature" in the schedule "always".
TargetChoices ==
    { Literal("on"), Literal(" Off "), Literal("dim"), EmptyTarget,
      Range(TRUE, 20, TRUE, 25) }

DebounceChoices == {0, 1}

RefreshChoices == {0, 2}

PropertyConfig(name, controllers, schedules, sensors) ==
    [name |-> name, controllers |-> controllers, schedules |-> schedules,
     sensors |-> sensors]

\* One environment "env1".  "temperature" is controlled by dev1, read from
\* s1 and s2, and follows the schedule "always".  With `second`, dev2
\* controls it too, and a second property "humidity", read from s2 and
\* without controllers, follows the first passing schedule of: an unknown
\* schedule id, "day" (minute 1), "always" (no humidity target) and "wide"
\* (minutes 0 to 1).  `humidity_first` is the order of the two properties.
MakeConfig(def1, target, kind1, second, humidity_first, debounce, refresh, dry_run) ==
    [environments |->
        <<[id |-> "env1",
           properties |->
              LET temperature ==
                      PropertyConfig("temperature", <<"dev1", "dev2">>,
                                     <<"always">>, <<"s1", "s2">>)
                  humidity ==
                      PropertyConfig("humidity", <<>>,
                                     <<"ghost", "day", "always", "wide">>, <<"s2">>)
              IN  IF ~second
                  THEN <<PropertyConfig("temperature", <<"dev1">>,
                                        <<"always">>, <<"s1", "s2">>)>>
                  ELSE IF humidity_first THEN <<humidity, temperature>>
                  ELSE <<temperature, humidity>>]>>,
     schedules |->
        [day |-> [has_range |-> TRUE, start |-> 1, end |-> 1,
                  targets |-> [temperature |-> NoTarget,
                               humidity |-> Range(TRUE, 20, TRUE, 25)]],
         always |-> [has_range |-> FALSE, start |-> 0, end |-> 0,
                     targets |-> [temperature |-> target,
                                  humidity |-> NoTarget]],
         wide |-> [has_range |-> TRUE, start |-> 0, end |-> 1,
                   targets |-> [temperature |-> NoTarget,
                                humidity |-> Literal("on")]]],
     definitions |->
        [dev1 |-> def1,
         dev2 |-> Definition(None, <<Effect("temperature", PolicyHeat),
                                     Effect("humidity", PolicyHeat)>>)],
     defaults |-> [heater |-> <<Effect("temperature", PolicyHeat)>>],
     registry |-> [dev1 |-> kind1, dev2 |-> "duck"],
     debounce_seconds |-> debounce,
     state_refresh_seconds |-> refresh,
     dry_run |-> dry_run]

\* The combinations tried.  Every window setting is tried on a duck dev1
\* with one effect; the other definitions, the second property, dry-run and
\* the other kinds of device are tried with fewer settings.
Tried(def1, target, kind1, second, humidity_first, debounce, refresh, dry_run) ==
    LET plain == def1 = Definition(None, <<Effect("temperature", PolicyHeat)>>)
        cool == def1 = Definition(None, <<Effect("temperature", PolicyCool)>>)
        both == debounce = 1 /\ refresh = 2
    IN  /\ second => /\ kind1 \in {"duck", "absent", "nomethod"}
                     /\ plain /\ both /\ ~dry_run
                     /\ target = Literal("on")
        /\ humidity_first => second /\ kind1 = "duck"
        /\ dry_run => kind1 \in {"duck", "absent", "nomethod", "tracking"} /\ plain
        /\ kind1 \in {"absent", "nomethod"} => plain /\ both
        /\ kind1 \in {"tracking", "kasa"} => plain /\ (debounce = 0 <=> refresh = 0)
        /\ ~(plain \/ cool) => kind1 = "duck" /\ both /\ ~dry_run

Configs ==
    { MakeConfig(c.def1, c.target, c.kind1, c.second, c.humidity_first,
                 c.debounce, c.refresh, c.dry_run) :
        c \in { t \in [def1 : DefinitionChoices, target : TargetChoices,
                       kind1 : DeviceKinds, second : BOOLEAN,
                       humidity_first : BOOLEAN,
                       debounce : DebounceChoices, refresh : RefreshChoices,
                       dry_run : BOOLEAN] :
                  Tried(t.def1, t.target, t.kind1, t.second, t.humidity_first,
                        t.debounce, t.refresh, t.dry_run) } }

\* ------------------------------------------------------------------------
\* controllers/environment_controller.py: construction and evaluate()
\* ------------------------------------------------------------------------

\* The monotonic clock is followed up to MaxTime seconds; a tick starts up
\* to MaxStep seconds after the previous one, and a device call takes one
\* of CallTimes seconds.
MaxTime == 2

MaxStep == 2

CallTimes == {0, 1}

\* Minutes in the day of the model.
DayMinutes == 2

TimesOfDay == 0..(DayMinutes * HalfMinutes - 1)

\* The time of day is read by _time_in_range only, so it is drawn only for
\* a property that lists a schedule with a time_range.
TimesRead(config, schedule_ids) ==
    IF \E i \in 1..Len(schedule_ids) :
           /\ schedule_ids[i] \in DOMAIN config.schedules
           /\ config.schedules[schedule_ids[i]].has_range
    THEN TimesOfDay
    ELSE {0}

EnvProps == {"env1"} \X PropertyNames

\* _last_commands.get(history_key, (None, 0))
NoEntry == [cmd |-> None, time |-> 0]

\* No raise is waiting for a retry.
NoFailure == [cmd |-> None, time |-> -1]

NoStatus == [rounded |-> -1, decision |-> None, has_min |-> FALSE, min |-> 0,
             has_max |-> FALSE, max |-> 0]

NoCur ==
    [env |-> None, name |-> None, mode |-> None, command |-> None,
     decision |-> None, value |-> NoValue, device |-> None]

NoIssue ==
    [step |-> "none", device |-> None, name |-> None, mode |-> None,
     command |-> None, policy_value |-> None, decision |-> None,
     value |-> NoValue, now |-> 0, outcome |-> "none", prev |-> NoEntry,
     retry_of |-> -1, cmd_runs |-> 0, pre_state |-> None,
     issued |-> FALSE, level |-> None, before |-> "none"]

\* The property loop has not run in this call of evaluate().
NoEval ==
    [name |-> None, schedules |-> <<>>, tod |-> 0, chosen |-> 0,
     outcome |-> "none", before |-> "none", contributors |-> 0,
     warned |-> FALSE, logged |-> FALSE]

\* Mutant of _should_log_property_status: the status line is logged on
\* every tick with a value.
StatusLoggedEveryTick(last, status) == TRUE

\* _should_log_property_status: `last` is _last_property_logs.get(status_key)
\* (NoStatus when there is no entry), `status` the tuple of this tick.
_should_log_property_status(last, status) == last # status

\* Mutant of ShouldWarn: the warning is logged on every tick without
\* readings.
ShouldWarnAlways(last_missing, now, state_refresh_seconds) == TRUE

\* Line 171: is 'No readings available' logged?  last_missing is -1 when
\* _missing_reading_logs has no entry for the property.
ShouldWarn(last_missing, now, state_refresh_seconds) ==
    \/ last_missing = -1
    \/ now - last_missing >= state_refresh_seconds

\* What the sensors may report for one property in a tick.  A property's
\* readings are looked up once per tick, so they are drawn where
\* _aggregate_sensor_values reads them.
ReadingChoices ==
    { [s1 |-> a, s2 |-> b] :
        a \in {Null, Num(18), Num(26)},
        b \in {Absent, Num(26)} }

\* str.strip() on the literal targets tried.
Strip(v) == IF v = " Off " THEN "Off" ELSE v

\* The time of the raise that a request of `command` retries, -1 if none.
RetryOf(failure, command) == IF failure.cmd = command THEN failure.time ELSE -1

\* Every (environment index, property index) pair, in iteration order.
RECURSIVE PropertyQueue(_, _, _)
PropertyQueue(environments, e, p) ==
    IF e > Len(environments) THEN <<>>
    ELSE IF p > Len(environments[e].properties)
    THEN PropertyQueue(environments, e + 1, 1)
    ELSE <<<<e, p>>>> \o PropertyQueue(environments, e, p + 1)

\* Lines 413-439 of _issue_command and 295 of _apply_state_targets.
\* Mutant of Suppression: the debounce window is not looked at.
SuppressionWithoutDebounce(entry, command, now, debounce_seconds, state_refresh_seconds) ==
    IF entry.cmd # command THEN "pass"
    ELSE IF now - entry.time < state_refresh_seconds THEN "refresh"
    ELSE "pass"

\* Mutant of Suppression: the state-refresh window is not looked at.
SuppressionWithoutRefresh(entry, command, now, debounce_seconds, state_refresh_seconds) ==
    IF entry.cmd # command THEN "pass"
    ELSE IF now - entry.time < debounce_seconds THEN "debounced"
    ELSE "pass"

\* Mutant of Suppression: the windows apply to whichever command was
\* recorded last.
SuppressionOfAnyCommand(entry, command, now, debounce_seconds, state_refresh_seconds) ==
    IF entry.cmd = None THEN "pass"
    ELSE IF now - entry.time < debounce_seconds THEN "debounced"
    ELSE IF now - entry.time < state_refresh_seconds THEN "refresh"
    ELSE "pass"

\* Is a request of `command` at `now` suppressed, given the history entry?
Suppression(entry, command, now, debounce_seconds, state_refresh_seconds) ==
    IF entry.cmd # command THEN "pass"
    ELSE IF now - entry.time < debounce_seconds THEN "debounced"
    ELSE IF now - entry.time < state_refresh_seconds THEN "refresh"
    ELSE "pass"

\* Outcomes of a request in which the device's command function was called.
InvokedOutcomes == {"raised", "sent", "noop", "void"}

\* Mutant of Dispatch: dry_run is not looked at.
DispatchIgnoringDryRun(suppression, kind, dry_run, called) ==
    IF suppression # "pass" THEN suppression
    ELSE IF kind = "absent" THEN "not_found"
    ELSE IF kind = "nomethod" THEN "no_method"
    ELSE called

\* Mutant of Dispatch: the command attribute is called without the
\* callable() test, which raises inside the try block.
DispatchWithoutCallableCheck(suppression, kind, dry_run, called) ==
    IF suppression # "pass" THEN suppression
    ELSE IF kind = "absent" THEN "not_found"
    ELSE IF dry_run THEN "dry_run"
    ELSE IF kind = "nomethod" THEN "raised"
    ELSE called

\* The order of the tests of _issue_command, lines 418-471: suppression,
\* registry lookup, callable(), dry-run, and only then the device call,
\* whose outcome is `called`.
Dispatch(suppression, kind, dry_run, called) ==
    IF suppression # "pass" THEN suppression
    ELSE IF kind = "absent" THEN "not_found"
    ELSE IF kind = "nomethod" THEN "no_method"
    ELSE IF dry_run THEN "dry_run"
    ELSE called

\* The value _issue_command returns: True in dry-run, command_sent after a
\* call that returned, False everywhere else.
Issued(outcome) == outcome \in {"dry_run", "sent", "void"}

\* The level of the message _issue_command logs.
LogLevel(outcome) ==
    IF outcome \in {"debounced", "refresh", "noop"} THEN "DEBUG"
    ELSE IF outcome \in {"not_found", "no_method", "raised"} THEN "ERROR"
    ELSE "INFO"

\* Mutant of CaughtByDispatch: the device call is not inside a try block.
CaughtNever(outcome) == FALSE

\* Lines 470-500: an exception of the device call is caught and logged.
CaughtByDispatch(outcome) == outcome = "raised"

\* Mutant of HistoryWritten: a raising call is recorded as well.
HistoryWrittenOnRaise(outcome) == outcome \in {"dry_run", "sent", "void", "raised"}

\* Does _issue_command write _last_commands[history_key]?  Only in dry-run
\* and when the call returned with command_sent true ("void": a result
\* without that field).
HistoryWritten(outcome) == outcome \in {"dry_run", "sent", "void"}

\* Mutant of RecordedTime: the time after the device call is recorded.
RecordedTimeAfterCall(now, after) == after

\* The time _issue_command records: `now`, read on entry.
RecordedTime(now, after) == now

\* TrackingDevice.turn_on / turn_off of the tests: `return await
\* ensure_power_state(...)` with the coroutine functions is_on and _command.
TrackingTurn(desired) ==
    AwaitEnsure("sync",
                ensure_power_state_on(
                    CallInput("sync", desired, "async", "async", tracking_is_on,
                              "state", "ok", "state")))

CtlInit ==
    /\ cfg \in Configs
    /\ ctl_status = "unbuilt"
    /\ clock = 0
    /\ last_commands = [k \in Keys |-> NoEntry]
    /\ missing_reading_logs = [k \in EnvProps |-> -1]
    /\ last_property_logs = [k \in EnvProps |-> NoStatus]
    /\ pc = "idle"
    /\ queue = <<>>
    /\ devq = <<>>
    /\ effq = <<>>
    /\ cur = NoCur
    /\ tracking_is_on \in IF cfg.registry["dev1"] = "tracking" THEN States ELSE {"off"}
    /\ last_issue = NoIssue
    /\ last_eval = NoEval
    /\ failed_at = [k \in Keys |-> NoFailure]
    /\ pass_done = FALSE

\* EnvironmentController.__init__: _validate_configuration raises or not.
Construct ==
    /\ ctl_status = "unbuilt"
    /\ ctl_status' = IF _validate_configuration(cfg) THEN "error" ELSE "ready"
    /\ UNCHANGED <<cfg, clock, last_commands, missing_reading_logs,
                   last_property_logs, pc, queue, devq, effq, cur,
                   tracking_is_on, last_issue, last_eval, failed_at, pass_done,
                   powerVars, kasaVars, fnVars,
                   appVars>>

\* Spriggler.run calls evaluate() with the readings polled.
Tick ==
    /\ ctl_status = "ready"
    /\ pc = "idle"
    /\ \E d \in 0..MaxStep :
          /\ clock + d <= MaxTime
          /\ clock' = clock + d
    /\ last_issue' = NoIssue
    /\ pc' = "eval"
    /\ queue' = PropertyQueue(cfg.environments, 1, 1)
    /\ UNCHANGED <<cfg, ctl_status, last_commands, missing_reading_logs,
                   last_property_logs, devq, effq, cur, tracking_is_on,
                   last_eval, failed_at, pass_done, powerVars, kasaVars, fnVars,
                   appVars>>

\* One iteration of the property loop of evaluate(), up to the call of
\* _apply_state_targets / _apply_device_commands.
EvaluateProperty ==
    /\ pc = "eval" /\ devq = <<>> /\ effq = <<>> /\ queue # <<>>
    /\ queue' = Tail(queue)
    /\ \E tod \in TimesRead(cfg, cfg.environments[queue[1][1]].properties[queue[1][2]].schedules),
          sensor_data \in ReadingChoices :
        LET environment == cfg.environments[queue[1][1]]
            property_config == environment.properties[queue[1][2]]
            property_name == property_config.name
            status_key == <<environment.id, property_name>>
            chosen == _select_schedule(cfg, property_name,
                                       property_config.schedules, tod)
            target_range ==
                IF chosen = 0 THEN NoTarget
                ELSE cfg.schedules[property_config.schedules[chosen]].targets[property_name]
            desired_state == Lower(Strip(target_range.state))
            property_value ==
                _aggregate_sensor_values(property_config.sensors, sensor_data)
            decision == _decision(property_value, target_range)
            status == [rounded |-> Round2(property_value), decision |-> decision,
                       has_min |-> target_range.has_min, min |-> target_range.min,
                       has_max |-> target_range.has_max, max |-> target_range.max]
            numeric == chosen # 0 /\ target_range.kind = "range"
            warn == ShouldWarn(missing_reading_logs[status_key], clock,
                               cfg.state_refresh_seconds)
            log == _should_log_property_status(last_property_logs[status_key],
                                               status)
            skip == /\ devq' = <<>>
                    /\ cur' = NoCur
                    /\ UNCHANGED <<missing_reading_logs, last_property_logs>>
        IN  /\ last_eval' =
                  [name |-> property_name, schedules |-> property_config.schedules,
                   tod |-> tod, chosen |-> chosen, before |-> last_eval.outcome,
                   contributors |->
                      IF numeric
                      THEN Cardinality({ i \in 1..Len(property_config.sensors) :
                               sensor_data[property_config.sensors[i]].kind = "num" })
                      ELSE 0,
                   warned |-> numeric /\ property_value = NoValue /\ warn,
                   logged |-> numeric /\ property_value # NoValue /\ log,
                   outcome |->
                      IF chosen = 0 THEN "no_schedule"
                      ELSE IF target_range.kind = "empty" THEN "no_target"
                      ELSE IF target_range.kind = "literal"
                      THEN IF desired_state \in {"on", "off"} THEN "state"
                           ELSE "unsupported"
                      ELSE IF property_value = NoValue THEN "missing"
                      ELSE "range"]
            /\ IF chosen = 0 \/ target_range.kind = "empty" THEN skip
               ELSE IF target_range.kind = "literal"
               THEN IF desired_state \notin {"on", "off"} THEN skip
                    ELSE /\ devq' = property_config.controllers
                         /\ cur' = [NoCur EXCEPT !.env = environment.id,
                                       !.name = property_name, !.mode = "state",
                                       !.command = IF desired_state = "on"
                                                   THEN "turn_on" ELSE "turn_off"]
                         /\ UNCHANGED <<missing_reading_logs, last_property_logs>>
               ELSE IF property_value = NoValue
               THEN /\ devq' = <<>>
                    /\ cur' = NoCur
                    /\ missing_reading_logs' =
                          IF warn
                          THEN [missing_reading_logs EXCEPT ![status_key] = clock]
                          ELSE missing_reading_logs
                    /\ UNCHANGED last_property_logs
               ELSE /\ devq' = property_config.controllers
                    /\ cur' = [NoCur EXCEPT !.env = environment.id,
                                  !.name = property_name, !.mode = "range",
                                  !.decision = decision, !.value = property_value]
                    /\ missing_reading_logs' =
                          [missing_reading_logs EXCEPT ![status_key] = -1]
                    /\ last_property_logs' =
                          IF log
                          THEN [last_property_logs EXCEPT ![status_key] = status]
                          ELSE last_property_logs
    /\ UNCHANGED <<cfg, ctl_status, clock, last_commands, pc, effq,
                   tracking_is_on, last_issue, failed_at, pass_done,
                   powerVars, kasaVars, fnVars,
                   appVars>>

\* One iteration of the controller loop of _apply_state_targets /
\* _apply_device_commands, up to the loop over the device's effects.
ApplyDevice ==
    /\ pc = "eval" /\ effq = <<>> /\ devq # <<>>
    /\ devq' = Tail(devq)
    /\ LET device_id == devq[1]
           entry == last_commands[<<device_id, cur.name>>]
           unchanged == /\ cur.mode = "state"
                        /\ entry.cmd = cur.command
                        /\ clock - entry.time < cfg.state_refresh_seconds
       IN  /\ cur' = [cur EXCEPT !.device = device_id]
           /\ effq' = IF unchanged THEN <<>>
                      ELSE MatchingEffects(_device_effects(cfg, device_id), cur.name)
           /\ last_issue' =
                 IF unchanged
                 THEN [NoIssue EXCEPT !.step = "apply", !.device = device_id,
                          !.name = cur.name, !.mode = cur.mode,
                          !.command = cur.command, !.now = clock,
                          !.outcome = "unchanged", !.prev = entry,
                          !.level = "DEBUG", !.before = last_issue.outcome,
                          !.retry_of = RetryOf(failed_at[<<device_id, cur.name>>], cur.command)]
                 ELSE last_issue
    /\ UNCHANGED <<cfg, ctl_status, clock, last_commands, missing_reading_logs,
                   last_property_logs, pc, queue, tracking_is_on,
                   last_eval, failed_at, pass_done, powerVars, kasaVars, fnVars,
                   appVars>>

\* One iteration of the effect loop for a matching effect: the command is
\* determined and _issue_command runs to its end.  `duck` is what a duck
\* device's command function does, `took` how long a device call takes.
IssueCommand ==
    /\ pc = "eval" /\ effq # <<>>
    /\ effq' = Tail(effq)
    /\ \E duck \in InvokedOutcomes, took \in CallTimes :
        LET effect == effq[1]
            device_id == cur.device
            history_key == <<device_id, cur.name>>
            command == IF cur.mode = "state" THEN cur.command
                       ELSE _determine_command(cur.decision, effect)
            policy_value == IF cur.mode = "range" /\ command # "raise"
                            THEN effect.policy[cur.decision] ELSE None
            now == clock
            entry == last_commands[history_key]
            kind == cfg.registry[device_id]
            desired == IF command = "turn_on" THEN "on" ELSE "off"
            tracked == TrackingTurn(desired)
            kasa == _set_power_state(desired, "state", "ok", "state", TRUE, TRUE)
            returned(r) == IF r.raised THEN "raised"
                           ELSE IF r.command_sent THEN "sent" ELSE "noop"
            suppression == Suppression(entry, command, now, cfg.debounce_seconds,
                                       cfg.state_refresh_seconds)
            outcome ==
                Dispatch(suppression, kind, cfg.dry_run,
                         IF kind = "tracking" THEN returned(tracked)
                         ELSE IF kind = "kasa" THEN returned(kasa)
                         ELSE duck)
            escapes == outcome = "raised" /\ ~CaughtByDispatch(outcome)
            invoked == outcome \in InvokedOutcomes
            seen == [NoIssue EXCEPT !.step = "issue", !.device = device_id,
                        !.name = cur.name, !.mode = cur.mode,
                        !.policy_value = policy_value, !.decision = cur.decision,
                        !.value = cur.value, !.before = last_issue.outcome]
        IN  IF command = "raise"
            THEN /\ took = 0 /\ duck = "raised"
                 /\ ctl_status' = "crashed"
                 /\ pc' = "idle"
                 /\ last_issue' = [seen EXCEPT !.outcome = "crashed"]
                 /\ UNCHANGED <<clock, last_commands, failed_at, tracking_is_on,
                                kasa_outlet, kasa_requests, kasa_result>>
            ELSE IF command = None
            THEN /\ took = 0 /\ duck = "raised"
                 /\ last_issue' = [seen EXCEPT !.outcome = "no_command"]
                 /\ UNCHANGED <<ctl_status, pc, clock, last_commands, failed_at,
                                tracking_is_on, kasa_outlet, kasa_requests,
                                kasa_result>>
            ELSE /\ IF invoked THEN clock + took <= MaxTime ELSE took = 0
                 /\ (kind # "duck" \/ ~invoked) => duck = "raised"
                 /\ clock' = clock + took
                 /\ last_commands' =
                       IF HistoryWritten(outcome)
                       THEN [last_commands EXCEPT ![history_key] =
                                [cmd |-> command,
                                 time |-> RecordedTime(now, clock + took)]]
                       ELSE last_commands
                 /\ failed_at' =
                       IF outcome = "raised"
                       THEN [failed_at EXCEPT ![history_key] =
                                [cmd |-> command, time |-> now]]
                       ELSE IF invoked /\ failed_at[history_key].cmd = command
                       THEN [failed_at EXCEPT ![history_key] = NoFailure]
                       ELSE failed_at
                 /\ tracking_is_on' = IF invoked /\ kind = "tracking"
                                      THEN tracked.state ELSE tracking_is_on
                 /\ kasa_outlet' = IF invoked /\ kind = "kasa"
                                   THEN kasa.outlet ELSE kasa_outlet
                 /\ kasa_requests' = IF invoked /\ kind = "kasa"
                                     THEN kasa.requests ELSE kasa_requests
                 /\ kasa_result' =
                       IF invoked /\ kind = "kasa"
                       THEN <<[desired |-> desired, raised |-> kasa.raised,
                               error |-> kasa.error,
                               command_sent |-> kasa.command_sent,
                               final_state |-> kasa.final_state,
                               cmd_runs |-> kasa.cmd_runs,
                               pre_state |-> kasa_outlet.on,
                               read |-> "state"]>>
                       ELSE kasa_result
                 /\ last_issue' =
                       [seen EXCEPT !.command = command, !.now = now,
                           !.outcome = outcome, !.prev = entry,
                           !.retry_of = RetryOf(failed_at[history_key], command),
                           !.cmd_runs = IF ~invoked THEN 0
                                        ELSE IF kind = "tracking" THEN tracked.cmd_runs
                                        ELSE IF kind = "kasa" THEN kasa.cmd_runs
                                        ELSE 1,
                           !.pre_state = IF kind = "tracking" THEN tracking_is_on
                                         ELSE IF kind = "kasa" THEN kasa_outlet.on
                                         ELSE None,
                           !.issued = Issued(outcome),
                           !.level = LogLevel(outcome)]
                 /\ ctl_status' = IF escapes THEN "crashed" ELSE ctl_status
                 /\ pc' = IF escapes THEN "idle" ELSE pc
    /\ UNCHANGED <<cfg, missing_reading_logs, last_property_logs, queue, devq,
                   cur, last_eval, pass_done, powerVars, kasa_initialized,
                   kasa_safety, fnVars,
                   appVars>>

\* evaluate() returns.
Return ==
    /\ pc = "eval" /\ queue = <<>> /\ devq = <<>> /\ effq = <<>>
    /\ pc' = "idle"
    /\ cur' = NoCur
    /\ last_eval' = NoEval
    /\ pass_done' = TRUE
    /\ UNCHANGED <<cfg, ctl_status, clock, last_commands, missing_reading_logs,
                   last_property_logs, queue, devq, effq, tracking_is_on,
                   last_issue, failed_at, powerVars, kasaVars, fnVars,
                   appVars>>

NextCtl ==
    \/ Construct
    \/ Tick
    \/ EvaluateProperty
    \/ ApplyDevice
    \/ IssueCommand
    \/ Return

\* ------------------------------------------------------------------------
\* Pure functions of the controller, applied to arguments drawn from
\* bounded sets
\* ------------------------------------------------------------------------

\* Values and bounds range over 0..MaxValue; a mean of two readings has
\* denominator 2.
MaxValue == 4

FnValues == { Fraction(n, d) : n \in 0..(2 * MaxValue), d \in {1, 2} }

FnRanges ==
    { Range(has_min, min, has_max, max) :
        has_min \in BOOLEAN, min \in 0..MaxValue,
        has_max \in BOOLEAN, max \in 0..MaxValue }

\* Windows of _time_in_range start and end at one of WindowMinutes minutes
\* of the day; the time of day is one of its half minutes.
WindowMinutes == 4

NoWindow == [start |-> 0, end |-> 0]

FnWindows == [start : 0..(WindowMinutes - 1), end : 0..(WindowMinutes - 1)]

FnTimes == 0..(WindowMinutes * HalfMinutes - 1)

\* Sensor lists of up to MaxSensors ids (an id may be listed twice), and
\* the readings the sensor data may hold for a property.
MaxSensors == 3

FnSensorIds == {"s1", "s2", "s3"}

FnSensorLists ==
    UNION { [1..n -> FnSensorIds] : n \in 0..MaxSensors }

FnReadings ==
    {Absent, Null, NonNumeric} \cup { Num(v) : v \in 0..MaxValue }

NoReadings == [s \in FnSensorIds |-> Absent]

NoControl == Control("dict", "absent", FALSE, "dict", "absent", "absent")

\* The fields of fn_in with the arguments of no function.
NoArguments ==
    [fn |-> None, value |-> NoValue, target_range |-> NoTarget,
     window |-> NoWindow, now |-> 0, sensors |-> <<>>,
     readings |-> NoReadings, control |-> NoControl]

\* The arguments of one call: of _decision(value, target_range) or of
\* _time_in_range(window, now); the fields of the other functions are idle.
FnInput(fn, value, target_range, window, now) ==
    [NoArguments EXCEPT !.fn = fn, !.value = value,
                        !.target_range = target_range,
                        !.window = window, !.now = now]

FnInit ==
    /\ fn_in \in
          { FnInput("_decision", v, r, NoWindow, 0) : v \in FnValues, r \in FnRanges }
          \cup { FnInput("_time_in_range", NoValue, NoTarget, w, t) :
                    w \in FnWindows, t \in FnTimes }
          \cup { [NoArguments EXCEPT !.fn = "_aggregate_sensor_values",
                                     !.sensors = l, !.readings = r] :
                    l \in FnSensorLists, r \in [FnSensorIds -> FnReadings] }
          \cup { [NoArguments EXCEPT !.fn = "_resolve_safety_config",
                                     !.control = c] : c \in Controls }
    /\ fn_out = <<>>

\* _decision(value, target_range) is called.
Decide ==
    /\ fn_in.fn = "_decision"
    /\ fn_out' = <<_decision(fn_in.value, fn_in.target_range)>>
    /\ UNCHANGED <<fn_in, powerVars, kasaVars, ctlVars, appVars>>

\* _time_in_range(range_definition, now) is called.
TestWindow ==
    /\ fn_in.fn = "_time_in_range"
    /\ fn_out' = <<_time_in_range(fn_in.window.start, fn_in.window.end, fn_in.now)>>
    /\ UNCHANGED <<fn_in, powerVars, kasaVars, ctlVars, appVars>>

\* _aggregate_sensor_values(property_name, sensors, sensor_data) is called.
Aggregate ==
    /\ fn_in.fn = "_aggregate_sensor_values"
    /\ fn_out' = <<_aggregate_sensor_values(fn_in.sensors, fn_in.readings)>>
    /\ UNCHANGED <<fn_in, powerVars, kasaVars, ctlVars, appVars>>

\* KasaPowerbar.__init__ calls _resolve_safety_config(control).
ResolveSafety ==
    /\ fn_in.fn = "_resolve_safety_config"
    /\ fn_out' = <<_resolve_safety_config(fn_in.control)>>
    /\ UNCHANGED <<fn_in, powerVars, kasaVars, ctlVars, appVars>>

NextFn ==
    \/ Decide
    \/ TestWindow
    \/ Aggregate
    \/ ResolveSafety

\* ------------------------------------------------------------------------
\* spriggler.py, loaders/device_loader.py, loaders/sensor_loader.py
\* ------------------------------------------------------------------------

\* A definition list holds up to MaxDefinitions entries; the ids are
\* numbered, and the i-th entry carries the id i.
MaxDefinitions == 3

EntityIds == 1..MaxDefinitions

\* What becomes of a definition: "ok"; import_module raises ("no_module");
\* the module has no class of the derived name ("no_class"); the
\* constructor raises ("ctor_raises"); the instance is built and its
\* initialize() raises ("init_raises").
DefinitionFates == {"ok", "no_module", "no_class", "ctor_raises", "init_raises"}

EntityDefinition(id, fate) == [id |-> id, fate |-> fate]

DefinitionLists ==
    UNION { { [i \in 1..n |-> EntityDefinition(i, f[i])] :
                f \in [1..n -> DefinitionFates] } : n \in 0..MaxDefinitions }

\* The object a constructor returns for a definition.
Instance(definition) ==
    [built_from |-> definition.id, init_ok |-> definition.fate = "ok"]

\* Lines 17-28 of the loaders: no exception up to and including the
\* constructor call.
Constructs(definition) == definition.fate \in {"ok", "init_raises"}

\* The loop of load_devices / load_sensors from the i-th definition on: an
\* instance is appended, or the exception is caught and logged.
RECURSIVE LoadFrom(_, _)
LoadFrom(definitions, i) ==
    IF i > Len(definitions) THEN <<>>
    ELSE IF Constructs(definitions[i])
    THEN <<Instance(definitions[i])>> \o LoadFrom(definitions, i + 1)
    ELSE LoadFrom(definitions, i + 1)

\* What a loader gives its caller: the list returned, or an exception.
Loaded(entities) == [raised |-> FALSE, entities |-> entities]

\* Mutant of load_devices: the exception of a failing definition is not
\* caught.
LoadDevicesWithoutCatch(definitions) ==
    IF \E i \in 1..Len(definitions) : ~Constructs(definitions[i])
    THEN [raised |-> TRUE, entities |-> <<>>]
    ELSE Loaded(LoadFrom(definitions, 1))

load_devices(definitions) == Loaded(LoadFrom(definitions, 1))

load_sensors(definitions) == Loaded(LoadFrom(definitions, 1))

\* Values of the runtime tunables tried.
RuntimeChoices ==
    { [has_dry_run |-> hd, dry_run |-> hd /\ d,
       has_debounce |-> hb, debounce_seconds |-> IF hb THEN b ELSE 0,
       has_refresh |-> hr, state_refresh_seconds |-> IF hr THEN r ELSE 0] :
        hd \in BOOLEAN, d \in BOOLEAN, hb \in BOOLEAN, b \in DebounceChoices,
        hr \in BOOLEAN, r \in RefreshChoices }

NoRuntime ==
    [has_dry_run |-> FALSE, dry_run |-> FALSE,
     has_debounce |-> FALSE, debounce_seconds |-> 0,
     has_refresh |-> FALSE, state_refresh_seconds |-> 0]

\* runtime_settings.get("debounce_seconds", 5.0)
DefaultDebounceSeconds == 5

\* state_refresh_seconds: float = 60.0
DefaultStateRefreshSeconds == 60

\* The configuration: the runtime block, the definition lists, and whether
\* EnvironmentController._validate_configuration accepts it.
Configuration(runtime, devices, sensors, valid) ==
    [runtime |-> runtime, devices |-> devices, sensors |-> sensors,
     valid |-> valid]

\* Every runtime block is tried with one definition list, and every
\* definition list with one runtime block.
Configurations ==
    LET plain == <<EntityDefinition(1, "ok")>>
    IN  { Configuration(r, plain, plain, TRUE) : r \in RuntimeChoices } \cup
        { Configuration(NoRuntime, d, plain, TRUE) : d \in DefinitionLists } \cup
        { Configuration(NoRuntime, plain, d, TRUE) : d \in DefinitionLists } \cup
        { Configuration(NoRuntime, plain, plain, FALSE) }

NoController ==
    [built |-> FALSE, debounce_seconds |-> 0, state_refresh_seconds |-> 0,
     dry_run |-> FALSE]

\* The EnvironmentController that initialize_controller constructs: it
\* passes debounce_seconds and dry_run, and nothing else of the runtime
\* block.
initialize_controller(runtime) ==
    [built |-> TRUE,
     debounce_seconds |-> IF runtime.has_debounce THEN runtime.debounce_seconds
                          ELSE DefaultDebounceSeconds,
     state_refresh_seconds |-> DefaultStateRefreshSeconds,
     dry_run |-> runtime.has_dry_run /\ runtime.dry_run]

NoDevice == [built_from |-> 0, init_ok |-> FALSE]

\* zip(self.devices, device_definitions)
ZipLength(devices, definitions) ==
    IF Len(devices) < Len(definitions) THEN Len(devices) ELSE Len(definitions)

\* The first pair of the loop of initialize_devices whose initialize()
\* raises (one past the last pair when none does).
FirstRaise(devices, definitions) ==
    LET raising == { i \in 1..ZipLength(devices, definitions) : ~devices[i].init_ok }
    IN  IF raising = {} THEN ZipLength(devices, definitions) + 1
        ELSE CHOOSE i \in raising : \A j \in raising : i <= j

\* _devices_by_id after the loop of initialize_devices: each pair before
\* the first raise is stored under the id of its definition.
RegisterDevices(devices, definitions) ==
    [id \in EntityIds |->
        LET stored == { i \in 1..(FirstRaise(devices, definitions) - 1) :
                          definitions[i].id = id }
        IN  IF stored = {} THEN NoDevice
            ELSE devices[CHOOSE i \in stored : \A j \in stored : i >= j]]

\* run(max_cycles): None, or a number.
MaxCycles == 2

NoMaxCycles == [given |-> FALSE, n |-> 0]

MaxCyclesChoices ==
    {NoMaxCycles} \cup { [given |-> TRUE, n |-> n] : n \in -1..MaxCycles }

\* Mutant of LoopDone: the test is made before the cycle is counted.
LoopDoneBeforeCount(max_cycles, cycle_count) ==
    max_cycles.given /\ cycle_count - 1 >= max_cycles.n

\* Line 260: `max_cycles is not None and cycle_count >= max_cycles`.
LoopDone(max_cycles, cycle_count) ==
    max_cycles.given /\ cycle_count >= max_cycles.n

NoTrace ==
    [polls_begun |-> 0, polls_done |-> 0, evaluations_begun |-> 0,
     evaluations_done |-> 0, sleeps_begun |-> 0, sleeps_done |-> 0]

SprigglerInit ==
    /\ sp_pc = "start"
    /\ sp_config \in Configurations
    /\ sp_devices = <<>>
    /\ sp_devices_by_id = [id \in EntityIds |-> NoDevice]
    /\ sp_sensors = <<>>
    /\ sp_controller = NoController
    /\ sp_max_cycles = NoMaxCycles
    /\ sp_cycle_count = 0
    /\ sp_trace = NoTrace

\* main(): initialize_config loads the file or raises ConfigError.
InitializeConfig ==
    /\ sp_pc = "start"
    /\ \E loaded \in BOOLEAN : sp_pc' = IF loaded THEN "devices" ELSE "failed"
    /\ UNCHANGED <<sp_config, sp_devices, sp_devices_by_id, sp_sensors,
                   sp_controller, sp_max_cycles, sp_cycle_count, sp_trace,
                   powerVars, kasaVars, ctlVars, fnVars, cacheVars, scannerVars>>

\* Spriggler.initialize_devices: load_devices, then the loop over
\* zip(self.devices, device_definitions); an initialize() that raises ends
\* it.
InitializeDevices ==
    /\ sp_pc = "devices"
    /\ LET loaded == load_devices(sp_config.devices)
           devices == loaded.entities
       IN  IF loaded.raised
           THEN /\ sp_pc' = "load_failed"
                /\ UNCHANGED <<sp_devices, sp_devices_by_id>>
           ELSE /\ sp_devices' = devices
                /\ sp_devices_by_id' = RegisterDevices(devices, sp_config.devices)
                /\ sp_pc' = IF FirstRaise(devices, sp_config.devices)
                                <= ZipLength(devices, sp_config.devices)
                             THEN "failed" ELSE "sensors"
    /\ UNCHANGED <<sp_config, sp_sensors, sp_controller, sp_max_cycles,
                   sp_cycle_count, sp_trace,
                   powerVars, kasaVars, ctlVars, fnVars, cacheVars, scannerVars>>

\* Spriggler.initialize_sensors: load_sensors, then the loop over
\* zip(self.sensors, sensor_definitions).
InitializeSensors ==
    /\ sp_pc = "sensors"
    /\ LET loaded == load_sensors(sp_config.sensors)
           sensors == loaded.entities
       IN  IF loaded.raised
           THEN /\ sp_pc' = "load_failed"
                /\ UNCHANGED sp_sensors
           ELSE /\ sp_sensors' = sensors
                /\ sp_pc' = IF FirstRaise(sensors, sp_config.sensors)
                                <= ZipLength(sensors, sp_config.sensors)
                             THEN "failed" ELSE "controller"
    /\ UNCHANGED <<sp_config, sp_devices, sp_devices_by_id, sp_controller,
                   sp_max_cycles, sp_cycle_count, sp_trace,
                   powerVars, kasaVars, ctlVars, fnVars, cacheVars, scannerVars>>

\* Spriggler.initialize_controller, called by main(): the constructor
\* raises ValueError for a configuration it does not accept.
InitializeController ==
    /\ sp_pc = "controller"
    /\ sp_controller' = IF sp_config.valid
                        THEN initialize_controller(sp_config.runtime)
                        ELSE sp_controller
    /\ sp_pc' = IF sp_config.valid THEN "ready" ELSE "failed"
    /\ UNCHANGED <<sp_config, sp_devices, sp_devices_by_id, sp_sensors,
                   sp_max_cycles, sp_cycle_count, sp_trace,
                   powerVars, kasaVars, ctlVars, fnVars, cacheVars, scannerVars>>

\* run(max_cycles) is called, by main() or with no controller built yet,
\* and reaches the first `await self._poll_sensors()`.
Run ==
    /\ sp_pc \in {"controller", "ready"}
    /\ \E max_cycles \in MaxCyclesChoices :
          /\ sp_max_cycles' = max_cycles
          /\ IF sp_controller.built
             THEN /\ sp_pc' = "poll"
                  /\ sp_trace' = [sp_trace EXCEPT !.polls_begun = 1]
                  /\ UNCHANGED sp_controller
             ELSE IF sp_config.valid
             THEN /\ sp_pc' = "poll"
                  /\ sp_trace' = [sp_trace EXCEPT !.polls_begun = 1]
                  /\ sp_controller' = initialize_controller(sp_config.runtime)
             ELSE /\ sp_pc' = "failed"
                  /\ UNCHANGED <<sp_controller, sp_trace>>
    /\ sp_cycle_count' = 0
    /\ UNCHANGED <<sp_config, sp_devices, sp_devices_by_id, sp_sensors,
                   powerVars, kasaVars, ctlVars, fnVars, cacheVars, scannerVars>>

\* _poll_sensors returns and evaluate() is called.
PollSensors ==
    /\ sp_pc = "poll"
    /\ sp_pc' = "evaluate"
    /\ sp_trace' = [sp_trace EXCEPT !.polls_done = @ + 1,
                                    !.evaluations_begun = @ + 1]
    /\ UNCHANGED <<sp_config, sp_devices, sp_devices_by_id, sp_sensors,
                   sp_controller, sp_max_cycles, sp_cycle_count,
                   powerVars, kasaVars, ctlVars, fnVars, cacheVars, scannerVars>>

\* evaluate() returns; the cycle is counted and the loop ends or sleeps.
\* A loop without max_cycles is followed for MaxCycles + 1 cycles.
Evaluate ==
    /\ sp_pc = "evaluate"
    /\ sp_cycle_count <= MaxCycles
    /\ sp_cycle_count' = sp_cycle_count + 1
    /\ IF LoopDone(sp_max_cycles, sp_cycle_count + 1)
       THEN /\ sp_pc' = "returned"
            /\ sp_trace' = [sp_trace EXCEPT !.evaluations_done = @ + 1]
       ELSE /\ sp_pc' = "sleep"
            /\ sp_trace' = [sp_trace EXCEPT !.evaluations_done = @ + 1,
                                            !.sleeps_begun = @ + 1]
    /\ UNCHANGED <<sp_config, sp_devices, sp_devices_by_id, sp_sensors,
                   sp_controller, sp_max_cycles,
                   powerVars, kasaVars, ctlVars, fnVars, cacheVars, scannerVars>>

\* asyncio.sleep(self.loop_interval) returns and the next poll begins.
Sleep ==
    /\ sp_pc = "sleep"
    /\ sp_cycle_count <= MaxCycles
    /\ sp_pc' = "poll"
    /\ sp_trace' = [sp_trace EXCEPT !.sleeps_done = @ + 1,
                                    !.polls_begun = @ + 1]
    /\ UNCHANGED <<sp_config, sp_devices, sp_devices_by_id, sp_sensors,
                   sp_controller, sp_max_cycles, sp_cycle_count,
                   powerVars, kasaVars, ctlVars, fnVars, cacheVars, scannerVars>>

\* main(): `finally: await spriggler.shutdown()`.
Shutdown ==
    /\ sp_pc \in {"failed", "load_failed", "returned"}
    /\ sp_pc' = "exit"
    /\ UNCHANGED <<sp_config, sp_devices, sp_devices_by_id, sp_sensors,
                   sp_controller, sp_max_cycles, sp_cycle_count, sp_trace,
                   powerVars, kasaVars, ctlVars, fnVars, cacheVars, scannerVars>>

NextSpriggler ==
    \/ InitializeConfig
    \/ InitializeDevices
    \/ InitializeSensors
    \/ InitializeController
    \/ Run
    \/ PollSensors
    \/ Evaluate
    \/ Sleep
    \/ Shutdown

\* ------------------------------------------------------------------------
\* devices/KASA_Powerbar.py: the connection cache
\* ------------------------------------------------------------------------

\* KasaPowerbar instances created by the loader.
MaxStrips == 3

\* Connection objects followed.
MaxConnections == 3

StripHosts == {"h1", "h2"}

StripNames == {"a", "b"}

\* Discover.discover(): the host at which a strip of that name answers.
DiscoveredHost(device_name) == IF device_name = "a" THEN "h1" ELSE "h2"

\* A KasaPowerbar after __init__: control.ip_address or control.name is
\* given; _device is 0 (None) or the number of a connection object.
NewStrip(ip_address, device_name) ==
    [ip_address |-> ip_address, device_name |-> device_name, device |-> 0,
     initialized |-> FALSE]

StripChoices ==
    { NewStrip(h, None) : h \in StripHosts } \cup
    { NewStrip(None, n) : n \in StripNames }

CacheKeys == StripHosts \cup { "name::" \o n : n \in StripNames }

\* _cache_key
_cache_key(strip) ==
    IF strip.ip_address # None THEN strip.ip_address
    ELSE "name::" \o strip.device_name

\* Mutant of CachedDevice: the cache is never hit.
CachedDeviceNever(cache, cache_key) == 0

\* self._device_cache.get(cache_key), 0 for None.
CachedDevice(cache, cache_key) == cache[cache_key]

CacheInit ==
    /\ device_cache = [k \in CacheKeys |-> 0]
    /\ strips \in [1..MaxStrips -> StripChoices]
    /\ connections = <<>>

\* KasaPowerbar.initialize of the i-th instance, run to its end (Spriggler
\* awaits each initialize() before it calls the next).  The discovery, the
\* connection, its first update() and the outlet lookup each succeed or
\* raise.
StripInitialize(i) ==
    \E discovered \in BOOLEAN, connected \in BOOLEAN, updated \in BOOLEAN,
       outlet_found \in BOOLEAN :
        LET strip == strips[i]
            discovers == strip.device_name # None /\ strip.ip_address = None
            located == IF discovers
                       THEN [strip EXCEPT !.ip_address = DiscoveredHost(strip.device_name)]
                       ELSE strip
            cache_key == _cache_key(located)
            cached == CachedDevice(device_cache, cache_key)
            fresh == Len(connections) + 1
            dev == IF cached # 0 THEN cached ELSE fresh
        IN  IF discovers /\ ~discovered
            THEN /\ connected /\ updated /\ outlet_found
                 /\ UNCHANGED <<device_cache, strips, connections>>
            ELSE IF cached = 0 /\ ~(connected /\ updated)
            THEN /\ connected \/ updated
                 /\ outlet_found
                 /\ strips' = [strips EXCEPT ![i] = located]
                 /\ UNCHANGED <<device_cache, connections>>
            ELSE /\ cached # 0 => connected /\ updated
                 /\ cached = 0 => Len(connections) < MaxConnections
                 /\ device_cache' =
                       IF cached = 0
                       THEN [device_cache EXCEPT ![cache_key] = fresh]
                       ELSE device_cache
                 /\ connections' =
                       IF cached = 0
                       THEN Append(connections,
                                   [key |-> cache_key, creator |-> i, updates |-> 1])
                       ELSE connections
                 /\ strips' = [strips EXCEPT ![i] =
                                  [located EXCEPT !.device = dev,
                                                  !.initialized = @ \/ outlet_found]]

StripInitializeAny ==
    /\ \E i \in 1..MaxStrips : StripInitialize(i)
    /\ UNCHANGED <<powerVars, kasaVars, ctlVars, fnVars, sprigglerVars, scannerVars>>

NextCache == StripInitializeAny

\* ------------------------------------------------------------------------
\* sensors/govee_utils.py: the shared BLE scanner
\* ------------------------------------------------------------------------

\* Detection callbacks (the handle_advertisement methods of the sensors),
\* numbered.
MaxCallbacks == 3

Callbacks == 1..MaxCallbacks

\* _shared_bleak_scanner: None, or a scanner built with the manufacturer
\* filter or without it, holding the dispatcher as its detection callback.
NoScanner == [created |-> FALSE, filtered |-> FALSE]

\* get_shared_bleak_scanner: the scanner is built once.
get_shared_bleak_scanner(scanner, filter_supported) ==
    IF scanner.created THEN scanner
    ELSE [created |-> TRUE, filtered |-> filter_supported]

\* `callback not in _detection_callbacks`
Registered(callbacks, callback) ==
    \E i \in 1..Len(callbacks) : callbacks[i] = callback

\* register_shared_detection_callback: the list afterwards.
register_shared_detection_callback(callbacks, callback) ==
    IF ~Registered(callbacks, callback) THEN Append(callbacks, callback)
    ELSE callbacks

\* Mutant of _dispatch_detection: an exception of a callback ends the
\* loop.
RECURSIVE DispatchUntilRaise(_, _, _)
DispatchUntilRaise(callbacks, raising, i) ==
    IF i > Len(callbacks) THEN <<>>
    ELSE IF callbacks[i] \in raising THEN <<callbacks[i]>>
    ELSE <<callbacks[i]>> \o DispatchUntilRaise(callbacks, raising, i + 1)

\* The loop of _dispatch_detection over list(_detection_callbacks) from
\* the i-th callback on: the callbacks called, in order.  The callbacks of
\* `raising` raise, which is caught.
RECURSIVE DispatchFrom(_, _, _)
DispatchFrom(callbacks, raising, i) ==
    IF i > Len(callbacks) THEN <<>>
    ELSE IF callbacks[i] \in raising
    THEN <<callbacks[i]>> \o DispatchFrom(callbacks, raising, i + 1)
    ELSE <<callbacks[i]>> \o DispatchFrom(callbacks, raising, i + 1)

\* Mutant of _dispatch_detection.
DispatchDetectionUntilRaise(callbacks, raising) ==
    DispatchUntilRaise(callbacks, raising, 1)

_dispatch_detection(callbacks, raising) == DispatchFrom(callbacks, raising, 1)

NoDispatch == [dispatched |-> FALSE, called |-> <<>>, raising |-> {}]

ScannerInit ==
    /\ detection_callbacks = <<>>
    /\ shared_bleak_scanner = NoScanner
    /\ last_dispatch = NoDispatch

\* get_shared_bleak_scanner is called (by a sensor's initialize).
GetSharedBleakScanner ==
    /\ \E filter_supported \in BOOLEAN :
          shared_bleak_scanner' =
              get_shared_bleak_scanner(shared_bleak_scanner, filter_supported)
    /\ UNCHANGED <<detection_callbacks, last_dispatch,
                   powerVars, kasaVars, ctlVars, fnVars, sprigglerVars, cacheVars>>

\* register_shared_detection_callback(callback): the callback is stored
\* unless it is in the list, and the dispatcher is registered again with
\* the scanner (which may lack that method).
RegisterSharedDetectionCallback ==
    /\ \E callback \in Callbacks, filter_supported \in BOOLEAN :
          /\ detection_callbacks' =
                register_shared_detection_callback(detection_callbacks, callback)
          /\ shared_bleak_scanner' =
                get_shared_bleak_scanner(shared_bleak_scanner, filter_supported)
    /\ last_dispatch' = NoDispatch
    /\ UNCHANGED <<powerVars, kasaVars, ctlVars, fnVars, sprigglerVars, cacheVars>>

\* The scanner calls _dispatch_detection for an advertisement.
DispatchDetection ==
    /\ shared_bleak_scanner.created
    /\ \E raising \in SUBSET Callbacks :
          last_dispatch' =
              [dispatched |-> TRUE,
               called |-> _dispatch_detection(detection_callbacks, raising),
               raising |-> raising]
    /\ UNCHANGED <<detection_callbacks, shared_bleak_scanner,
                   powerVars, kasaVars, ctlVars, fnVars, sprigglerVars, cacheVars>>

NextScanner ==
    \/ GetSharedBleakScanner
    \/ RegisterSharedDetectionCallback
    \/ DispatchDetection

\* A sub-model that a specification does not exercise stays as constructed.
PowerIdle ==
    /\ ps_in = CallInput("sync", "on", "none", "sync", "off", "state", "ok", "state")
    /\ last_call = <<>>
    /\ mock_is_on = "off"
    /\ vesync_initialized = FALSE
    /\ vesync_on = "off"

KasaIdle ==
    /\ kasa_initialized = FALSE
    /\ kasa_safety = [enforce |-> FALSE, target_state |-> None,
                      has_timeout |-> FALSE, timeout |-> 0]
    /\ kasa_outlet = [on |-> "off", has_module |-> TRUE,
                      has_query_helper |-> TRUE, rules |-> <<>>]
    /\ kasa_requests = <<>>
    /\ kasa_result = <<>>

CtlIdle ==
    /\ cfg = MakeConfig(Undefined, EmptyTarget, "absent", FALSE, FALSE, 0, 0, FALSE)
    /\ ctl_status = "unbuilt"
    /\ clock = 0
    /\ last_commands = [k \in Keys |-> NoEntry]
    /\ missing_reading_logs = [k \in EnvProps |-> -1]
    /\ last_property_logs = [k \in EnvProps |-> NoStatus]
    /\ pc = "idle"
    /\ queue = <<>>
    /\ devq = <<>>
    /\ effq = <<>>
    /\ cur = NoCur
    /\ tracking_is_on = "off"
    /\ last_issue = NoIssue
    /\ last_eval = NoEval
    /\ failed_at = [k \in Keys |-> NoFailure]
    /\ pass_done = FALSE

FnIdle ==
    /\ fn_in = FnInput("_decision", NoValue, NoTarget, NoWindow, 0)
    /\ fn_out = <<>>

\* The KasaPowerbar of the control loop: initialised at start-up, with an
\* enforced safety config (fall back to off after 5 minutes) on an outlet
\* that is off and exposes the countdown surface.
KasaInLoop ==
    /\ kasa_initialized = TRUE
    /\ kasa_safety = [enforce |-> TRUE, target_state |-> "off",
                      has_timeout |-> TRUE, timeout |-> 5 * CentiMinute]
    /\ kasa_outlet = [on |-> "off", has_module |-> TRUE,
                      has_query_helper |-> TRUE, rules |-> <<>>]
    /\ kasa_requests = <<>>
    /\ kasa_result = <<>>

SprigglerIdle ==
    /\ sp_pc = "start"
    /\ sp_config = Configuration(NoRuntime, <<>>, <<>>, TRUE)
    /\ sp_devices = <<>>
    /\ sp_devices_by_id = [id \in EntityIds |-> NoDevice]
    /\ sp_sensors = <<>>
    /\ sp_controller = NoController
    /\ sp_max_cycles = NoMaxCycles
    /\ sp_cycle_count = 0
    /\ sp_trace = NoTrace

CacheIdle ==
    /\ device_cache = [k \in CacheKeys |-> 0]
    /\ strips = [i \in 1..MaxStrips |-> NewStrip("h1", None)]
    /\ connections = <<>>

ScannerIdle ==
    /\ detection_callbacks = <<>>
    /\ shared_bleak_scanner = NoScanner
    /\ last_dispatch = NoDispatch

AppIdle == SprigglerIdle /\ CacheIdle /\ ScannerIdle

InitPower == PowerInit /\ KasaIdle /\ CtlIdle /\ FnIdle /\ AppIdle

SpecPower == InitPower /\ [][NextPower]_vars

InitKasa == KasaInit /\ PowerIdle /\ CtlIdle /\ FnIdle /\ AppIdle

SpecKasa == InitKasa /\ [][NextKasa]_vars

InitCtl == CtlInit /\ PowerIdle /\ KasaInLoop /\ FnIdle /\ AppIdle

SpecCtl == InitCtl /\ [][NextCtl]_vars

InitFn == FnInit /\ PowerIdle /\ KasaIdle /\ CtlIdle /\ AppIdle

SpecFn == InitFn /\ [][NextFn]_vars

IdleModels == PowerIdle /\ KasaIdle /\ CtlIdle /\ FnIdle

InitSpriggler == SprigglerInit /\ IdleModels /\ CacheIdle /\ ScannerIdle

SpecSpriggler == InitSpriggler /\ [][NextSpriggler]_vars

\* run() is a coroutine of an event loop that keeps resuming it.
SpecSprigglerLive == SpecSpriggler /\ WF_vars(NextSpriggler)

InitCache == CacheInit /\ IdleModels /\ SprigglerIdle /\ ScannerIdle

SpecCache == InitCache /\ [][NextCache]_vars

InitScanner == ScannerInit /\ IdleModels /\ SprigglerIdle /\ CacheIdle

SpecScanner == InitScanner /\ [][NextScanner]_vars

\* ------------------------------------------------------------------------
\* Claims
\* ------------------------------------------------------------------------

Called == last_call # <<>>

Call == last_call[1]

\* What the caller's reader reported on the pre-read, as ensure_power_state
\* saw it.
PreRead(c) == _read_state(c.in.variant, c.in.rk, c.in.rb1, c.in.st)

\* C1: whenever the state reader reports a state equal to the desired state,
\* ensure_power_state / ensure_power_state_async does not call command,
\* reads the state exactly once and returns command_sent = False with
\* final_state equal to the state read; and a driver asked for the state
\* its device already has never executes the device's power command.
C1_NoOpWhenAlreadyInState ==
    Called =>
        /\ PreRead(Call) = Call.in.desired =>
              /\ ~Call.out.raised \/ Call.who # "direct"
              /\ Call.out.cmd_calls = 0
              /\ Call.out.cmd_runs = 0
              /\ Call.out.reads = 1
              /\ Call.who = "direct" =>
                    /\ Call.out.command_sent = FALSE
                    /\ Call.out.final_state = PreRead(Call)
        /\ (Call.who # "direct" /\ Call.in.st = Call.in.desired) =>
              /\ Call.out.cmd_runs = 0
              /\ Call.out.state = Call.in.st

C1_Witness ==
    /\ Called
    /\ Call.who = "direct"
    /\ Call.in.rk = "sync"
    /\ Call.in.rb1 = "state"
    /\ Call.in.st = "on"
    /\ Call.in.desired = "on"
    /\ Call.out.command_sent = FALSE

\* C5: on an initialised KasaPowerbar with an enforced safety config and a
\* usable countdown surface, a turn_on / turn_off whose commanded state
\* differs from the fallback state sends exactly one delete_all_rules
\* followed by exactly one add_rule with delay = timeout seconds and act =
\* 1 (fallback on) / 0 (fallback off); commanding the fallback state itself
\* sends exactly one delete_all_rules and no add_rule.
C5_SafetyTimerProgramming ==
    LET settings == _safety_settings(kasa_safety)
        clear == [op |-> "delete_all_rules", delay |-> 0, act |-> 0]
        add == [op |-> "add_rule", delay |-> settings.timeout_seconds,
                act |-> IF settings.target = "on" THEN 1 ELSE 0]
    IN  (/\ kasa_result # <<>>
         /\ kasa_result[1].desired \in States
         /\ kasa_initialized
         /\ settings.enforce
         /\ kasa_outlet.has_module
         /\ kasa_outlet.has_query_helper)
        => kasa_requests = IF kasa_result[1].desired # settings.target
                           THEN <<clear, add>>
                           ELSE <<clear>>


\* The last step of the dispatch, and the key it was about.
Issue == last_issue

IssueKey == <<last_issue.device, last_issue.name>>

\* The last step was a request that went through _issue_command.
Requested == Issue.step = "issue" /\ Issue.command \in Commands

\* C2 (as stated): when the same command is requested twice for a (device,
\* property) pair less than debounce_seconds apart, the device's command
\* function is invoked exactly once in total.  Here the earlier request, at
\* retry_of, invoked the function (and it raised); the claim then asks that
\* the later request does not invoke it again.
C2_ExactlyOneInvocation ==
    (/\ Requested
     /\ Issue.retry_of >= 0
     /\ Issue.now - Issue.retry_of < cfg.debounce_seconds)
        => Issue.outcome \notin InvokedOutcomes

\* C2 (amended): when the same command is requested twice for a (device,
\* property) pair less than debounce_seconds apart and the earlier request
\* was recorded in the history, the later request is suppressed by the
\* debounce and the command function is not invoked for it.
C2_DebounceAfterRecordedRequest ==
    (/\ Requested
     /\ Issue.prev.cmd = Issue.command
     /\ Issue.now - Issue.prev.time < cfg.debounce_seconds)
        => /\ Issue.outcome = "debounced"
           /\ Issue.cmd_runs = 0

C2_Witness ==
    /\ Requested
    /\ ~cfg.dry_run
    /\ cfg.state_refresh_seconds = 0
    /\ Issue.prev.cmd = Issue.command
    /\ Issue.now - Issue.prev.time < cfg.debounce_seconds
    /\ Issue.outcome = "debounced"

\* C3: the history changes only in a step of _issue_command, only for the
\* requested (device, property) key, which is set to (command, time of the
\* request), and only when the device call returned with command_sent true
\* (or a result without that field) or dry-run is on; in those cases it is
\* written, and in every other case every entry is left unchanged.
C3_HistoryWrittenOnlyWhenSent ==
    [][LET issued == effq # <<>> /\ effq' = Tail(effq)
           seen == last_issue'
           key == <<seen.device, seen.name>>
           written == /\ issued
                      /\ seen.step = "issue"
                      /\ seen.command \in Commands
                      /\ \/ seen.outcome \in {"sent", "void"}
                         \/ seen.outcome = "dry_run" /\ cfg.dry_run
       IN  IF written
           THEN last_commands' =
                   [last_commands EXCEPT ![key] =
                       [cmd |-> seen.command, time |-> clock]]
           ELSE last_commands' = last_commands]_vars

C3_Witness ==
    /\ Requested
    /\ Issue.outcome = "sent"
    /\ clock > Issue.now
    /\ last_commands[IssueKey] = [cmd |-> Issue.command, time |-> Issue.now]
    /\ \E k \in Keys : k # IssueKey /\ last_commands[k] # NoEntry

\* C4: after a device command raised, every later request of the same
\* command for the same (device, property), by a literal target or by a
\* decision, invokes the device's command function again, whatever the
\* debounce and state-refresh windows, until an invocation returns.
C4_RetryAfterFailure ==
    (Issue.step \in {"issue", "apply"} /\ Issue.retry_of >= 0)
        => Issue.outcome \in InvokedOutcomes

C4_Witness ==
    /\ Requested
    /\ Issue.retry_of >= 0
    /\ Issue.now - Issue.retry_of < cfg.debounce_seconds
    /\ Issue.now - Issue.retry_of < cfg.state_refresh_seconds
    /\ Issue.outcome \in InvokedOutcomes
    /\ pass_done

\* C6 (as stated): while the loop's decision keeps an outlet commanded to a
\* state different from the fallback, the on-device countdown is armed:
\* after a pass that requested turn_on of the KasaPowerbar whose fallback is
\* off, the outlet holds a countdown rule.
C6_CountdownArmedWhileDriven ==
    (/\ pass_done /\ pc = "idle"
     /\ cfg.registry["dev1"] = "kasa"
     /\ Requested
     /\ Issue.device = "dev1"
     /\ Issue.command = "turn_on"
     /\ _safety_settings(kasa_safety).target = "off")
        => kasa_outlet.rules # <<>>

\* C7 (as stated): when a literal target asks for the state opposite to the
\* one a TrackingDevice with a matching effect is in, the pass runs the
\* underlying command exactly once, the device ends in the target state and
\* the history records the command.
C7_LiteralTargetSwitchesDevice ==
    (/\ Requested
     /\ Issue.mode = "state"
     /\ cfg.registry[Issue.device] = "tracking"
     /\ ~cfg.dry_run
     /\ Issue.outcome \in InvokedOutcomes
     /\ Issue.pre_state # (IF Issue.command = "turn_on" THEN "on" ELSE "off"))
        => /\ Issue.cmd_runs = 1
           /\ tracking_is_on = (IF Issue.command = "turn_on" THEN "on" ELSE "off")
           /\ last_commands[IssueKey].cmd = Issue.command

\* The last step translated a decision for a matching effect.
Translated == Issue.step = "issue" /\ Issue.mode = "range" /\ Issue.outcome # "crashed"

\* C8 (as stated): the command requested for a decision is turn_on when the
\* policy value is "on", turn_off when it is "off", and none for any other
\* value.
C8_PolicyValueAsWritten ==
    Translated =>
        Issue.command = (IF Issue.policy_value = "on" THEN "turn_on"
                         ELSE IF Issue.policy_value = "off" THEN "turn_off"
                         ELSE None)

\* C8 (amended): the policy value is compared without regard to case: "on"
\* or "ON" gives turn_on, "off" or "Off" gives turn_off, any other value no
\* command; with target {min 20, max 25} and policy {increase on, stable
\* off, decrease off} a reading of 18 requests turn_on and a reading of 22
\* requests turn_off.
C8_PolicyValueIgnoringCase ==
    Translated =>
        /\ Issue.command =
              (IF Issue.policy_value \in {"on", "ON"} THEN "turn_on"
               ELSE IF Issue.policy_value \in {"off", "Off"} THEN "turn_off"
               ELSE None)
        /\ (/\ Issue.device = "dev1"
            /\ cfg.definitions["dev1"].effects = <<Effect("temperature", PolicyHeat)>>
            /\ cfg.schedules["always"].targets["temperature"] = Range(TRUE, 20, TRUE, 25))
              => /\ Issue.value = Fraction(18, 1) => Issue.command = "turn_on"
                 /\ Issue.value = Fraction(22, 1) => Issue.command = "turn_off"

C8_Witness ==
    /\ Translated
    /\ Issue.policy_value = "ON"
    /\ Issue.command = "turn_on"
    /\ Issue.outcome = "sent"

\* _decision has been applied to fn_in.
Decided == fn_in.fn = "_decision" /\ fn_out # <<>>

Below == fn_in.target_range.has_min /\ fn_in.value.num < fn_in.target_range.min * fn_in.value.den

Above == fn_in.target_range.has_max /\ fn_in.value.num > fn_in.target_range.max * fn_in.value.den

\* C9 (as stated): value < min (min set) gives increase; value > max (max
\* set) gives decrease; otherwise stable; an absent bound never fires its
\* decision.
C9_DecisionRule ==
    Decided =>
        /\ Below => fn_out[1] = "increase"
        /\ Above => fn_out[1] = "decrease"
        /\ (~Below /\ ~Above) => fn_out[1] = "stable"
        /\ ~fn_in.target_range.has_min => fn_out[1] # "increase"
        /\ ~fn_in.target_range.has_max => fn_out[1] # "decrease"

\* C9 (amended): value < min (min set) gives increase; otherwise value > max
\* (max set) gives decrease; otherwise stable; an absent bound never fires
\* its decision.
C9_DecisionRuleMinFirst ==
    Decided =>
        /\ Below => fn_out[1] = "increase"
        /\ (Above /\ ~Below) => fn_out[1] = "decrease"
        /\ (~Below /\ ~Above) => fn_out[1] = "stable"
        /\ ~fn_in.target_range.has_min => fn_out[1] # "increase"
        /\ ~fn_in.target_range.has_max => fn_out[1] # "decrease"

C9_Witness ==
    /\ Decided
    /\ Above /\ ~Below
    /\ fn_in.target_range.has_min
    /\ fn_in.value.den = 2
    /\ fn_out[1] = "decrease"

\* A controller of a property has no effects, or has a matching effect
\* whose policy is missing or lacks one of increase, decrease, stable.
FaultyController ==
    \E e \in 1..Len(cfg.environments) :
        \E p \in 1..Len(cfg.environments[e].properties) :
            LET property_config == cfg.environments[e].properties[p]
            IN  \E c \in 1..Len(property_config.controllers) :
                    LET effects == _device_effects(cfg, property_config.controllers[c])
                    IN  \/ effects = <<>>
                        \/ \E i \in 1..Len(effects) :
                              /\ effects[i].property = property_config.name
                              /\ \/ ~effects[i].has_policy
                                 \/ \E d \in {"increase", "decrease", "stable"} :
                                        d \notin DOMAIN effects[i].policy

\* C10: constructing the controller with a faulty controller configuration
\* raises, and after the error no evaluation runs and no command is issued.
C10_FailFastValidation ==
    /\ (ctl_status # "unbuilt" /\ FaultyController) => ctl_status = "error"
    /\ ctl_status = "error" =>
          /\ pc = "idle"
          /\ ~pass_done
          /\ last_issue = NoIssue
          /\ last_eval = NoEval
          /\ last_commands = [k \in Keys |-> NoEntry]

C10_Witness ==
    /\ ctl_status = "error"
    /\ cfg.definitions["dev1"].effects = <<Effect("temperature", PolicyNoStable)>>

\* The last call was made on ensure_power_state / ensure_power_state_async
\* itself.
Direct == Called /\ Call.who = "direct"

\* The state the reader reports after the command, as the caller of the
\* reader sees it.
ReadBack(c) ==
    IF c.in.rk = "none" THEN None
    ELSE IF c.in.rk = "async" /\ c.in.variant = "sync" THEN "on"
    ELSE IF c.in.rb2 = "state" THEN c.out.state
    ELSE None

\* The pre-read is unknown or differs from the desired state.
CommandPath(c) == PreRead(c) = None \/ PreRead(c) # c.in.desired

\* C16 (as stated): whenever the pre-read state is unknown or differs from
\* the desired state, ensure_power_state invokes command exactly once and
\* returns command_sent = True with final_state equal to the state read
\* back (null without a reader), also when the read back does not match.
C16_CommandPath ==
    (Direct /\ CommandPath(Call)) =>
        /\ Call.out.cmd_calls = 1
        /\ ~Call.out.raised
        /\ Call.out.command_sent
        /\ Call.out.final_state = ReadBack(Call)

\* C16 (amended): whenever the pre-read state is unknown or differs from
\* the desired state, command is invoked exactly once; when that call
\* returns, the result is command_sent = True with final_state equal to the
\* state read back; when it raises, the exception leaves
\* ensure_power_state and no read back is made.
C16_CommandPathWhenCommandReturns ==
    (Direct /\ CommandPath(Call)) =>
        /\ Call.out.cmd_calls = 1
        /\ IF CommandRaises(Call.in.variant, Call.in.ck, Call.in.cb)
           THEN /\ Call.out.raised
                /\ Call.out.reads = (IF Call.in.rk = "none" THEN 0 ELSE 1)
           ELSE /\ ~Call.out.raised
                /\ Call.out.command_sent
                /\ Call.out.final_state = ReadBack(Call)
                /\ Call.out.reads = (IF Call.in.rk = "none" THEN 0 ELSE 2)

C16_Witness ==
    /\ Direct
    /\ Call.in.variant = "sync" /\ Call.in.rk = "sync" /\ Call.in.ck = "sync"
    /\ Call.in.rb1 = "state" /\ Call.in.st # Call.in.desired
    /\ Call.in.cb = "stuck" /\ Call.in.rb2 = "state"
    /\ Call.out.command_sent
    /\ Call.out.final_state # Call.in.desired

\* C17 (as stated): on an initialised MockDevice or VesyncHumidifier whose
\* state read and power command succeed, turn_on / turn_off return a
\* result instead of raising, and when the device was in the opposite
\* state the underlying power command has been executed on return.
C17_DriversReturnResult ==
    (/\ Called
     /\ Call.who \in {"mock", "vesync"}
     /\ Call.in.rb1 = "state" /\ Call.in.cb = "ok" /\ Call.in.rb2 = "state")
        => /\ ~Call.out.raised
           /\ Call.in.st # Call.in.desired =>
                 /\ Call.out.cmd_runs = 1
                 /\ Call.out.state = Call.in.desired

\* C19: an exception raised by the state reader never leaves
\* ensure_power_state (only the command's own failure does); after a failed
\* pre-read the command is still invoked; a failed read back gives
\* command_sent = True with final_state null.
C19_StateReadFailuresNonFatal ==
    Direct =>
        LET ran == ReaderBodyRuns(Call.in.variant, Call.in.rk)
        IN  /\ Call.out.raised =>
                  CommandRaises(Call.in.variant, Call.in.ck, Call.in.cb)
            /\ (ran /\ Call.in.rb1 = "raise") => Call.out.cmd_calls = 1
            /\ (ran /\ Call.in.rb2 = "raise" /\ Call.out.cmd_calls = 1
                    /\ ~Call.out.raised)
                  => /\ Call.out.command_sent
                     /\ Call.out.final_state = None

C19_Witness ==
    /\ Direct
    /\ Call.in.rk = "sync" /\ Call.in.variant = "sync"
    /\ Call.in.rb1 = "raise" /\ Call.in.rb2 = "raise"
    /\ Call.in.desired = "off" /\ Call.in.st = "off"
    /\ Call.out.cmd_calls = 1
    /\ Call.out.command_sent
    /\ Call.out.final_state = None

\* _time_in_range has been applied to fn_in.
Tested == fn_in.fn = "_time_in_range" /\ fn_out # <<>>

\* The time of day fn_in.now is exactly the minute m.
AtMinute(m) == fn_in.now = m * HalfMinutes

Overnight == fn_in.window.start > fn_in.window.end

\* C12 (as stated): for every window with start > end, the minute before
\* start and the minute after end are excluded, and the minutes start and
\* end are included.
C12_OvernightBoundaries ==
    (Tested /\ Overnight) =>
        /\ AtMinute(fn_in.window.start - 1) => ~fn_out[1]
        /\ AtMinute(fn_in.window.end + 1) => ~fn_out[1]
        /\ AtMinute(fn_in.window.start) => fn_out[1]
        /\ AtMinute(fn_in.window.end) => fn_out[1]

\* C12 (amended): for every window with start > end, the minutes start and
\* end are included; the minute before start and the minute after end are
\* excluded when start is more than one minute after end (otherwise the
\* minute before start is end itself and the window covers every minute).
C12_OvernightBoundariesWithGap ==
    (Tested /\ Overnight) =>
        /\ AtMinute(fn_in.window.start) => fn_out[1]
        /\ AtMinute(fn_in.window.end) => fn_out[1]
        /\ fn_in.window.start > fn_in.window.end + 1 =>
              /\ AtMinute(fn_in.window.start - 1) => ~fn_out[1]
              /\ AtMinute(fn_in.window.end + 1) => ~fn_out[1]
        /\ fn_in.window.start = fn_in.window.end + 1 =>
              \A m \in 0..(WindowMinutes - 1) : AtMinute(m) => fn_out[1]

C12_Witness ==
    /\ Tested /\ Overnight
    /\ fn_in.window.start > fn_in.window.end + 1
    /\ fn_in.window.end > 0
    /\ AtMinute(fn_in.window.end + 1)
    /\ ~fn_out[1]

\* C13: for a window start-end and a time of day now, _time_in_range is
\* true iff start <= now <= end when start <= end, and iff now >= start or
\* now <= end when start > end.
C13_WindowTest ==
    Tested =>
        LET from == fn_in.window.start * HalfMinutes
            to == fn_in.window.end * HalfMinutes
        IN  fn_out[1] <=>
                IF fn_in.window.start <= fn_in.window.end
                THEN from <= fn_in.now /\ fn_in.now <= to
                ELSE fn_in.now >= from \/ fn_in.now <= to

C13_Witness ==
    /\ Tested /\ Overnight
    /\ fn_in.now < fn_in.window.end * HalfMinutes
    /\ fn_in.now % HalfMinutes = 1
    /\ fn_out[1]

\* The property loop of evaluate() has looked at a property in this call.
Eval == last_eval

Evaluated == last_eval.outcome # "none"

\* The i-th schedule id listed for the property evaluated is known, has no
\* time window or a window containing the time of day, and has a target
\* entry for the property.
Passes(i) ==
    LET schedule_id == Eval.schedules[i]
    IN  /\ schedule_id \in DOMAIN cfg.schedules
        /\ LET schedule == cfg.schedules[schedule_id]
               from == schedule.start * HalfMinutes
               to == schedule.end * HalfMinutes
           IN  /\ schedule.has_range =>
                      IF schedule.start <= schedule.end
                      THEN from <= Eval.tod /\ Eval.tod <= to
                      ELSE Eval.tod >= from \/ Eval.tod <= to
               /\ schedule.targets[Eval.name].kind # "absent"

\* The schedule chosen is the first that passes, and none when none passes;
\* a property without schedule hands no device to the dispatch.
FirstMatch ==
    Evaluated =>
        LET passing == { i \in 1..Len(Eval.schedules) : Passes(i) }
        IN  IF passing = {}
            THEN /\ Eval.chosen = 0
                 /\ Eval.outcome = "no_schedule"
                 /\ devq = <<>> /\ effq = <<>> /\ cur = NoCur
            ELSE /\ Eval.chosen \in passing
                 /\ \A j \in passing : Eval.chosen <= j
                 /\ Eval.outcome # "no_schedule"

\* A step of the property loop (the only step that shortens the queue
\* while evaluate() runs).
PropertyStep == pc = "eval" /\ queue # <<>> /\ queue' # queue

\* A property without schedule is skipped: the loop moves to the next
\* property and nothing else changes.
SkipLeavesRest ==
    (PropertyStep /\ last_eval'.outcome = "no_schedule") =>
        /\ queue' = Tail(queue)
        /\ pc' = "eval" /\ devq' = <<>> /\ effq' = <<>>
        /\ UNCHANGED <<cfg, ctl_status, clock, last_commands,
                       missing_reading_logs, last_property_logs,
                       tracking_is_on, last_issue, failed_at, kasaVars>>

\* C11: _select_schedule returns the first schedule, in the order of the
\* property's schedule id list, that is known, has no window or a window
\* containing the time of day, and has a target entry for the property; it
\* returns none when no schedule passes, and the property is then skipped
\* for this tick without affecting the other properties.
C11_FirstMatchSchedule == []FirstMatch /\ [][SkipLeavesRest]_vars

\* humidity had no passing schedule and temperature, evaluated after it in
\* the same tick, had its command sent to dev2.
C11_Witness ==
    /\ Eval.name = "temperature" /\ Eval.before = "no_schedule"
    /\ Eval.outcome = "state"
    /\ Issue.step = "issue" /\ Issue.device = "dev2" /\ Issue.outcome = "sent"

\* The request of last_issue found its own command in the history, recorded
\* less than debounce_seconds or less than state_refresh_seconds before.
InsideWindow ==
    /\ Issue.step \in {"issue", "apply"}
    /\ Issue.command \in Commands
    /\ Issue.prev.cmd = Issue.command
    /\ \/ Issue.now - Issue.prev.time < cfg.debounce_seconds
       \/ Issue.now - Issue.prev.time < cfg.state_refresh_seconds

Suppressed == Issue.outcome \in {"debounced", "refresh", "unchanged"}

\* C14: if the last command recorded for (device, property) equals the
\* requested command and less than debounce_seconds, or less than
\* state_refresh_seconds, has elapsed since it was recorded, the request is
\* suppressed: the device is not invoked, the history is not modified and
\* the request reports that no command was issued.
C14_SuppressionRule ==
    InsideWindow =>
        /\ Suppressed
        /\ Issue.outcome \notin InvokedOutcomes
        /\ Issue.cmd_runs = 0
        /\ ~Issue.issued
        /\ last_commands[IssueKey] = Issue.prev

\* A numeric-target request outside the debounce window and inside the
\* state-refresh window was suppressed by _issue_command.
C14_Witness ==
    /\ InsideWindow
    /\ Issue.step = "issue" /\ Issue.mode = "range"
    /\ Issue.now - Issue.prev.time >= cfg.debounce_seconds
    /\ Issue.outcome = "refresh"

\* C15: with dry_run enabled no device turn_on / turn_off function is
\* invoked in any sequence of evaluation passes, and every request that
\* reaches a known device with the requested method records (command, now)
\* in the history as if it had been sent, so identical requests inside the
\* debounce / state-refresh windows are suppressed afterwards.
C15_DryRun ==
    cfg.dry_run =>
        /\ Issue.outcome \notin InvokedOutcomes
        /\ Issue.cmd_runs = 0
        /\ \A k \in Keys : failed_at[k] = NoFailure
        /\ kasa_requests = <<>> /\ kasa_result = <<>>
        /\ (/\ Issue.step = "issue" /\ Issue.command \in Commands
            /\ cfg.registry[Issue.device] \notin {"absent", "nomethod"}
            /\ ~Suppressed) =>
              /\ Issue.outcome = "dry_run"
              /\ Issue.issued
              /\ last_commands[IssueKey] = [cmd |-> Issue.command, time |-> Issue.now]
        /\ InsideWindow => Suppressed /\ last_commands[IssueKey] = Issue.prev
        /\ Suppressed => Issue.prev.cmd = Issue.command

\* In dry-run a request was suppressed by the debounce window of a request
\* recorded earlier (which only a dry-run request can have recorded).
C15_Witness ==
    /\ cfg.dry_run
    /\ Issue.step = "issue" /\ Issue.outcome = "debounced"
    /\ Issue.prev.cmd = Issue.command

\* A step of the dispatch: the command of one matching effect is determined
\* and _issue_command runs (the only step taken while effects are queued).
DispatchStep == pc = "eval" /\ effq # <<>>

\* The loops over effects, devices and properties go on after the step.
LoopGoesOn ==
    /\ pc' = "eval" /\ ctl_status' = "ready"
    /\ effq' = Tail(effq) /\ devq' = devq /\ queue' = queue /\ cur' = cur

\* A device call that raised leaves the loops intact.
RaiseLeavesLoop ==
    (DispatchStep /\ last_issue'.outcome = "raised") => LoopGoesOn

\* Every way ensure_power_state can raise: the exception is the command's
\* and the reader was called for the pre-read only.
RaisesWithoutReadBack ==
    \A variant \in Variants, desired \in States, rk \in ReaderKinds,
       ck \in CommandKinds, st \in States, rb1 \in ReadBehaviours,
       cb \in CommandBehaviours, rb2 \in ReadBehaviours :
        LET r == ensure_power_state(variant, desired, rk, ck, st, rb1, cb, rb2)
        IN  r.raised =>
               /\ r.cmd_calls = 1
               /\ r.reads = (IF rk = "none" THEN 0 ELSE 1)
               /\ r.log = None

\* Nothing raised by a device call leaves _issue_command: evaluate() never
\* ends with an exception, and a request that raised is logged as an error
\* and reported as not issued.
RaiseCaught ==
    /\ ctl_status # "crashed"
    /\ Issue.outcome = "raised" =>
          /\ ctl_status = "ready"
          /\ ~Issue.issued /\ Issue.level = "ERROR"
          /\ last_commands[IssueKey] = Issue.prev
          /\ Issue.before = "none" => RaisesWithoutReadBack
    /\ (pc = "eval" /\ queue = <<>> /\ devq = <<>> /\ effq = <<>>) => ENABLED Return

\* C18: an exception raised by a device's turn_on / turn_off (including
\* one propagated from command() through ensure_power_state, which makes no
\* verification read in that case) is caught by the dispatch layer, and
\* evaluate() returns normally after going on to the remaining effects,
\* devices, properties and environments of the tick.
C18_FailingCommandCaught == []RaiseCaught /\ [][RaiseLeavesLoop]_vars

\* The call of dev1 raised, dev2 was commanded next, the next property was
\* evaluated and evaluate() is about to return.
C18_Witness ==
    /\ pc = "eval" /\ queue = <<>> /\ devq = <<>> /\ effq = <<>>
    /\ Eval.name = "humidity" /\ Eval.before = "state"
    /\ Issue.device = "dev2" /\ Issue.before = "raised"
    /\ Issue.outcome = "sent"

UnknownReference ==
    /\ Issue.step = "issue" /\ Issue.command \in Commands
    /\ cfg.registry[Issue.device] \in {"absent", "nomethod"}

\* A request for a device missing from the registry, or without the
\* method, logs an error, issues nothing and writes no history.
UnknownSkipped ==
    UnknownReference =>
        /\ Issue.outcome = (IF cfg.registry[Issue.device] = "absent"
                            THEN "not_found" ELSE "no_method")
        /\ Issue.level = "ERROR"
        /\ ~Issue.issued
        /\ Issue.cmd_runs = 0
        /\ last_commands[IssueKey] = Issue.prev
        /\ Issue.prev = NoEntry
        /\ ctl_status = "ready"

UnknownLeavesLoop ==
    (DispatchStep /\ last_issue'.outcome \in {"not_found", "no_method"}) =>
        LoopGoesOn /\ UNCHANGED <<last_commands, clock, failed_at>>

\* C20: when a controller device id is absent from the device registry, or
\* the device has no callable method for the requested command, the
\* dispatch layer logs an error, issues nothing, leaves the history
\* unchanged, and the evaluation continues with the remaining devices and
\* properties of the tick.
C20_UnknownReferencesSkipped == []UnknownSkipped /\ [][UnknownLeavesLoop]_vars

\* dev1 has no turn_on; dev2 was commanded after it and the next property
\* was evaluated.
C20_Witness ==
    /\ cfg.registry["dev1"] = "nomethod"
    /\ Eval.name = "humidity" /\ Eval.before = "state"
    /\ Issue.device = "dev2" /\ Issue.before = "no_method"
    /\ Issue.outcome = "sent"

\* The last call was turn_on / turn_off.
Turned == kasa_result # <<>> /\ kasa_result[1].desired \in States

\* turn_on / turn_off has been called on the initialised KasaPowerbar.
KasaCalled == Turned /\ kasa_initialized

\* The outlet exposes the countdown module and the low-level query helper.
CountdownSurface == kasa_outlet.has_module /\ kasa_outlet.has_query_helper

ClearRequest == [op |-> "delete_all_rules", delay |-> 0, act |-> 0]

C24_SafetyNeverInterrupts ==
    KasaCalled => ~kasa_result[1].raised

\* The resolved safety config disables the safety: enforce is false, or
\* target_state is not on / off, or there is no timeout or one <= 0.
SafetyDisabled ==
    \/ ~kasa_safety.enforce
    \/ kasa_safety.target_state \notin {"on", "off"}
    \/ ~kasa_safety.has_timeout
    \/ kasa_safety.timeout <= 0

\* C25: with the safety disabled, every turn_on / turn_off only attempts to
\* clear the existing countdown rules and never adds a rule.
C25_DisabledOnlyClears ==
    (KasaCalled /\ SafetyDisabled /\ CountdownSurface) =>
        kasa_requests = <<ClearRequest>>

\* _resolve_safety_config has been applied to fn_in.control.
Resolved == fn_in.fn = "_resolve_safety_config" /\ fn_out # <<>>

OwnSafety == fn_in.control.own = "safety"

OverrideEntry == fn_in.control.shared /\ fn_in.control.override = "dict"

NamedEntry == fn_in.control.shared /\ fn_in.control.named = "dict"

\* C26 (as stated): the config applied is the safety block of the outlet's
\* own entry under control.outlets; else the outlet's entry in
\* control.safety.outlets; else the shared control.safety block; else none.
C26_SafetyPrecedence ==
    Resolved =>
        fn_out[1] = IF OwnSafety THEN "own"
                    ELSE IF OverrideEntry THEN "override"
                    ELSE IF fn_in.control.shared THEN "shared"
                    ELSE "none"

\* C26 (amended): as stated, with one more level: a dict that
\* control.safety holds under the outlet's name is applied before the
\* shared block itself.
C26_SafetyPrecedenceWithNamedEntry ==
    Resolved =>
        fn_out[1] = IF OwnSafety THEN "own"
                    ELSE IF OverrideEntry THEN "override"
                    ELSE IF NamedEntry THEN "named"
                    ELSE IF fn_in.control.shared THEN "shared"
                    ELSE "none"

\* The outlet has an entry without safety block under control.outlets and
\* an entry in control.safety.outlets, which is applied.
C26_Witness ==
    /\ Resolved
    /\ fn_in.control.own = "nosafety" /\ OverrideEntry /\ NamedEntry
    /\ fn_out[1] = "override"

\* _aggregate_sensor_values has been applied to fn_in.
Aggregated == fn_in.fn = "_aggregate_sensor_values" /\ fn_out # <<>>

\* Positions of the sensor list whose sensor is present in the sensor data
\* with a non-null numeric value.
Contributing ==
    { i \in 1..Len(fn_in.sensors) : fn_in.readings[fn_in.sensors[i]].kind = "num" }

RECURSIVE TotalOf(_)
TotalOf(positions) ==
    IF positions = {} THEN 0
    ELSE LET i == CHOOSE j \in positions : TRUE
         IN  fn_in.readings[fn_in.sensors[i]].v + TotalOf(positions \ {i})

\* C29: _aggregate_sensor_values returns the arithmetic mean over exactly
\* the configured sensors that are present in the sensor data with a
\* non-null numeric value, and no value iff no sensor contributes.
C29_SensorAggregation ==
    Aggregated =>
        IF Contributing = {} THEN fn_out[1] = NoValue
        ELSE /\ fn_out[1] # NoValue
             /\ fn_out[1].den > 0
             /\ fn_out[1].num * Cardinality(Contributing)
                   = TotalOf(Contributing) * fn_out[1].den

\* Three sensors are configured, the second reports a non-numeric value
\* and the mean of the two others is not a whole number.
C29_Witness ==
    /\ Aggregated
    /\ Len(fn_in.sensors) = 3
    /\ fn_in.readings[fn_in.sensors[2]] = NonNumeric
    /\ Cardinality(Contributing) = 2
    /\ fn_out[1].den = 2

\* C21: command resolution uses only the first effect of the device that
\* matches the property: once an effect of a (device, property) pair has
\* been resolved in an evaluation pass, a later matching effect of the same
\* pair never produces a command, so the device receives at most one
\* command per property in one pass.
C21_FirstMatchingEffectWins ==
    [][(/\ DispatchStep
        /\ Issue.step = "issue"
        /\ Issue.device = cur.device /\ Issue.name = cur.name)
       => last_issue'.command \notin Commands]_vars

\* Some controller of some property has declared effects, none of them for
\* that property.
NonMatchingController ==
    \E e \in 1..Len(cfg.environments) :
        \E p \in 1..Len(cfg.environments[e].properties) :
            LET property_config == cfg.environments[e].properties[p]
            IN  \E c \in 1..Len(property_config.controllers) :
                    LET definition == cfg.definitions[property_config.controllers[c]]
                        effects == IF ~definition.defined THEN <<>>
                                   ELSE IF definition.effects # <<>>
                                   THEN definition.effects
                                   ELSE IF definition.what \in DOMAIN cfg.defaults
                                   THEN cfg.defaults[definition.what]
                                   ELSE <<>>
                    IN  /\ effects # <<>>
                        /\ \A i \in 1..Len(effects) :
                              effects[i].property # property_config.name

Constructed == ctl_status # "unbuilt"

\* C22 (as stated): a controller device whose declared effects contain no
\* effect for the property is a legitimate no-op: the controller is
\* constructed and runs.
C22_NonMatchingIsNoOp ==
    (NonMatchingController /\ Constructed) => ctl_status = "ready"

\* C22 (amended): a controller device whose declared effects contain no
\* effect for the property is a configuration error: construction raises
\* and nothing is evaluated; in a list that has an effect for the property,
\* the effects for other properties are skipped by the effect loop.
C22_NonMatchingRejected ==
    /\ (NonMatchingController /\ Constructed) =>
          /\ ctl_status = "error"
          /\ pc = "idle" /\ ~pass_done
          /\ last_issue = NoIssue /\ last_eval = NoEval
          /\ last_commands = [k \in Keys |-> NoEntry]
    /\ \A i \in 1..Len(effq) : effq[i].property = cur.name

C22_Witness ==
    /\ NonMatchingController
    /\ ctl_status = "error"

\* The entry of _missing_reading_logs for a property of "env1".
MissingRecord(name) == missing_reading_logs[<<"env1", name>>]

\* What an iteration of the property loop does with the warning and its
\* record: without readings the warning is logged iff there is no record
\* or the record is at least state_refresh_seconds old, and logging sets
\* the record to the current time; a successful reading removes the
\* record; anything else leaves it.
ThrottleStep ==
    PropertyStep =>
        LET ev == last_eval'
            key == <<"env1", ev.name>>
            before == missing_reading_logs[key]
            after == missing_reading_logs'[key]
        IN  /\ ev.outcome = "missing" =>
                  /\ ev.warned <=> (\/ before = -1
                                    \/ clock - before >= cfg.state_refresh_seconds)
                  /\ after = IF ev.warned THEN clock ELSE before
            /\ ev.outcome = "range" => ~ev.warned /\ after = -1
            /\ ev.outcome \notin {"missing", "range"} => ~ev.warned /\ after = before
            /\ \A k \in EnvProps \ {key} :
                  missing_reading_logs'[k] = missing_reading_logs[k]

RecordKept == ~PropertyStep => UNCHANGED missing_reading_logs

\* A record is the time of the last warning logged since the last
\* successful reading.
RecordIsPast ==
    \A k \in EnvProps :
        missing_reading_logs[k] # -1 =>
            0 <= missing_reading_logs[k] /\ missing_reading_logs[k] <= clock

\* C27: for each (environment, property) with a numeric target, the 'No
\* readings available' warning is logged on the first tick without
\* readings and then not again until at least state_refresh_seconds have
\* passed since it was last logged, however many ticks occur in between; a
\* tick with a successful reading clears the record, so the next tick
\* without readings logs immediately.
C27_MissingReadingThrottle ==
    []RecordIsPast /\ [][ThrottleStep /\ RecordKept]_vars

\* A tick without readings, one second after the warning was logged and
\* inside the state-refresh window, logs nothing.
C27_Witness ==
    /\ Eval.outcome = "missing" /\ ~Eval.warned
    /\ MissingRecord(Eval.name) = 0 /\ clock = 1
    /\ cfg.state_refresh_seconds > 1

\* A property with a numeric target for which no sensor contributes a
\* value is abandoned: no device is handed to the dispatch, and nothing
\* but the warning record changes.
NoDataStep ==
    (/\ PropertyStep
     /\ last_eval'.outcome \in {"missing", "range"}
     /\ last_eval'.contributors = 0) =>
        /\ last_eval'.outcome = "missing"
        /\ queue' = Tail(queue)
        /\ pc' = "eval" /\ devq' = <<>> /\ effq' = <<>> /\ cur' = NoCur
        /\ UNCHANGED <<cfg, ctl_status, clock, last_commands,
                       last_property_logs, tracking_is_on, last_issue,
                       failed_at, kasaVars>>

\* While a property is abandoned no controller or effect is queued.
NoDataNoDispatch ==
    Eval.outcome = "missing" =>
        /\ Eval.contributors = 0
        /\ devq = <<>> /\ effq = <<>> /\ cur = NoCur

\* C28: when no configured sensor contributes a value for a property with
\* a numeric target, the evaluation of that property is abandoned for the
\* tick: no command is issued to any of its controlling devices, the
\* command history and the status-log snapshot are left unchanged, and the
\* other properties are still evaluated.
C28_NoDataNoAction == []NoDataNoDispatch /\ [][NoDataStep]_vars

\* humidity had no reading; temperature, evaluated after it in the same
\* tick, had its command sent.
C28_Witness ==
    /\ Eval.name = "temperature" /\ Eval.before = "missing"
    /\ Issue.step = "issue" /\ Issue.device = "dev1" /\ Issue.outcome = "sent"

\* The request of last_issue called a driver built on ensure_power_state
\* whose helper call sent the command and read back a state other than the
\* commanded one.
VerificationMismatch ==
    /\ Issue.step = "issue" /\ Issue.command \in Commands
    /\ Issue.outcome \in InvokedOutcomes
    /\ cfg.registry[Issue.device] \in {"tracking", "kasa"}
    /\ LET desired == IF Issue.command = "turn_on" THEN "on" ELSE "off"
           r == ensure_power_state_on(
                    CallInput("sync", desired, "async", "async",
                              Issue.pre_state, "state", "ok", "state"))
       IN  r.command_sent /\ r.final_state # desired

\* C30: when a command was sent but the device did not reach the commanded
\* state, the command is not re-sent within the same tick and the dispatch
\* layer still records it in the history as issued (so that it is re-issued
\* only after the debounce and state-refresh windows).
C30_MismatchRecordedAsIssued ==
    VerificationMismatch =>
        /\ Issue.issued
        /\ last_commands[IssueKey] = [cmd |-> Issue.command, time |-> Issue.now]

\* The entry of _last_property_logs for a property of "env1".
StatusRecord(name) == last_property_logs[<<"env1", name>>]

\* The status tuple of the property an iteration of the property loop has
\* just evaluated against a numeric target: the value rounded to two
\* decimals, the decision and the bounds of the target chosen.
StatusTuple(ev, locals) ==
    LET target == cfg.schedules[ev.schedules[ev.chosen]].targets[ev.name]
    IN  [rounded |-> Round2(locals.value), decision |-> locals.decision,
         has_min |-> target.has_min, min |-> target.min,
         has_max |-> target.has_max, max |-> target.max]

\* What an iteration of the property loop does with the status line and
\* its snapshot: with a value and a numeric target the line is logged iff
\* the tuple differs from the snapshot, and the snapshot is the tuple
\* afterwards; every other iteration logs no status line and leaves the
\* snapshot alone.
StatusStep ==
    PropertyStep =>
        LET ev == last_eval'
            key == <<"env1", ev.name>>
        IN  /\ ev.outcome = "range" =>
                  /\ ev.logged <=> StatusTuple(ev, cur') # last_property_logs[key]
                  /\ last_property_logs'[key] = StatusTuple(ev, cur')
            /\ ev.outcome # "range" =>
                  /\ ~ev.logged
                  /\ last_property_logs'[key] = last_property_logs[key]
            /\ \A k \in EnvProps \ {key} :
                  last_property_logs'[k] = last_property_logs[k]

\* The snapshot changes only where a status line is logged, so it is the
\* last tuple logged.
SnapshotIsLastLogged ==
    /\ ~PropertyStep => UNCHANGED last_property_logs
    /\ last_property_logs' # last_property_logs => last_eval'.logged

C32_RuntimeTunablesConsumed ==
    sp_controller.built =>
        LET runtime == sp_config.runtime
        IN  /\ sp_controller.dry_run = (runtime.has_dry_run /\ runtime.dry_run)
            /\ runtime.has_debounce =>
                   sp_controller.debounce_seconds = runtime.debounce_seconds
            /\ runtime.has_refresh =>
                   sp_controller.state_refresh_seconds = runtime.state_refresh_seconds

\* The definitions of a list for which the module imports, the class
\* exists and the constructor succeeds.
Loadable(definitions) ==
    { i \in 1..Len(definitions) :
        definitions[i].fate \notin {"no_module", "no_class", "ctor_raises"} }

\* `entities` holds, in definition order, one instance for each loadable
\* definition and nothing else.
IsLoadOf(entities, definitions) ==
    LET loadable == Loadable(definitions)
    IN  /\ Len(entities) = Cardinality(loadable)
        /\ Len(entities) <= Len(definitions)
        /\ \A i \in loadable :
              entities[Cardinality({ j \in loadable : j <= i })].built_from
                  = definitions[i].id

\* initialize_devices and initialize_sensors start with the call of the
\* loader.
LoadStep ==
    /\ (sp_pc = "devices" /\ sp_pc' # "devices") =>
           /\ sp_pc' # "load_failed"
           /\ IsLoadOf(sp_devices', sp_config.devices)
    /\ (sp_pc = "sensors" /\ sp_pc' # "sensors") =>
           /\ sp_pc' # "load_failed"
           /\ IsLoadOf(sp_sensors', sp_config.sensors)

\* C33: load_devices / load_sensors never raise for a bad definition; they
\* return, in definition order, one instance for each definition whose
\* module imports, whose class exists and whose constructor succeeds, and
\* omit every other definition, so the result is never longer than the
\* definition list.
C33_LoadingSkipsFailures == [][LoadStep]_vars

\* Of three device definitions the first could not be imported and the
\* third had a failing constructor: only the second was loaded.
C33_Witness ==
    /\ sp_pc = "sensors"
    /\ Len(sp_config.devices) = 3
    /\ sp_config.devices[1].fate = "no_module"
    /\ sp_config.devices[3].fate = "ctor_raises"
    /\ Len(sp_devices) = 1 /\ sp_devices[1].built_from = 2

\* initialize_devices has returned.
DevicesInitialized == sp_pc \in {"sensors", "controller", "ready", "poll", "evaluate", "sleep", "returned"}

\* C36: after Spriggler.initialize_devices, for every device id in the
\* registry, the registered object is the instance that was constructed
\* from the definition carrying that id, also when some definitions
\* earlier in the list failed to load.
C36_RegistryIntegrity ==
    DevicesInitialized =>
        \A id \in EntityIds :
            sp_devices_by_id[id] # NoDevice =>
                sp_devices_by_id[id].built_from = id

\* max(n, 1) for run(max_cycles=n).
CyclesAsked == IF sp_max_cycles.n > 1 THEN sp_max_cycles.n ELSE 1

\* A poll is begun only when every evaluation begun has ended, and an
\* evaluation only when the poll of its cycle has ended.
PollThenEvaluate ==
    /\ sp_trace.polls_done <= sp_trace.polls_begun
    /\ sp_trace.polls_begun <= sp_trace.evaluations_done + 1
    /\ sp_trace.evaluations_begun = sp_trace.polls_done
    /\ sp_trace.evaluations_done <= sp_trace.evaluations_begun
    /\ sp_trace.evaluations_done = sp_cycle_count

\* run(max_cycles=n) never begins a cycle beyond max(n, 1); when it
\* returns it has polled and evaluated max(n, 1) times and slept between
\* the cycles only.
ExactCycles ==
    sp_max_cycles.given =>
        /\ sp_trace.polls_begun <= CyclesAsked
        /\ sp_pc = "returned" =>
               /\ sp_cycle_count = CyclesAsked
               /\ sp_trace.polls_done = CyclesAsked
               /\ sp_trace.evaluations_done = CyclesAsked
               /\ sp_trace.sleeps_begun = CyclesAsked - 1
               /\ sp_trace.sleeps_done = CyclesAsked - 1

\* C39: Spriggler.run(max_cycles=n) performs exactly max(n, 1) cycles and
\* then returns without sleeping after the last one; in every cycle the
\* sensor poll completes before the evaluation pass starts, and the
\* evaluation pass completes before the next poll begins.
C39_LoopStructure ==
    /\ [](PollThenEvaluate /\ ExactCycles)
    /\ (sp_pc = "poll" /\ sp_max_cycles.given) ~> sp_pc = "returned"

\* run(max_cycles=2) has returned after two cycles and one sleep.
C39_Witness ==
    /\ sp_pc = "returned"
    /\ sp_max_cycles.given /\ sp_max_cycles.n = 2
    /\ sp_cycle_count = 2
    /\ sp_trace.polls_done = 2 /\ sp_trace.sleeps_done = 1

\* Two instances that hold a device and have the same cache key hold the
\* same connection object, which is the one cached under that key.
SharedConnection ==
    \A i \in 1..MaxStrips :
        strips[i].device # 0 =>
            /\ device_cache[_cache_key(strips[i])] = strips[i].device
            /\ \A j \in 1..MaxStrips :
                  (strips[j].device # 0 /\ _cache_key(strips[j]) = _cache_key(strips[i]))
                      => strips[j].device = strips[i].device

\* A connection is created once per key and updated once, by the instance
\* that created it.
CreatedOnce ==
    /\ \A c \in 1..Len(connections) :
          /\ connections[c].updates = 1
          /\ device_cache[connections[c].key] = c
          /\ \A e \in 1..Len(connections) :
                connections[e].key = connections[c].key => e = c
    /\ \A k \in CacheKeys :
          device_cache[k] # 0 => device_cache[k] \in 1..Len(connections)

\* A cached connection is never replaced, and an initialize call that
\* finds one creates none.
CacheKept ==
    \A k \in CacheKeys :
        device_cache[k] # 0 =>
            /\ device_cache'[k] = device_cache[k]
            /\ connections'[device_cache[k]] = connections[device_cache[k]]

\* C34: after any sequence of initialize calls, all KasaPowerbar instances
\* with the same cache key (IP address, else strip name) hold the same
\* underlying device object; the connection is created and updated once,
\* by the first instance, and every later instance reuses it.
C34_SharedStripConnection ==
    [](SharedConnection /\ CreatedOnce) /\ [][CacheKept]_vars

\* Three instances of the same strip, one configured by address and two
\* by name: the first created the connection and the others reuse it.
C34_Witness ==
    /\ Len(connections) = 1 /\ connections[1].creator = 1
    /\ \A i \in 1..MaxStrips : strips[i].initialized /\ strips[i].device = 1
    /\ strips[2].device_name = "a" /\ strips[3].device_name = "a"
    /\ strips[1].device_name = None

\* No callback is stored twice in _detection_callbacks.
StoredOnce ==
    \A i, j \in 1..Len(detection_callbacks) :
        detection_callbacks[i] = detection_callbacks[j] => i = j

\* A dispatched advertisement called the registered callbacks, each once
\* and in registration order, whichever of them raised.
DeliveredToAll ==
    last_dispatch.dispatched => last_dispatch.called = detection_callbacks

\* C35: register_shared_detection_callback never stores the same callback
\* twice, and every advertisement dispatched by the shared scanner is
\* delivered to each registered callback once, in registration order, the
\* remaining callbacks still being called when one of them raises.
C35_SharedScannerFanOut == StoredOnce /\ DeliveredToAll

\* An advertisement dispatched to three callbacks of which the first
\* raised: the two registered after it were called all the same.
C35_Witness ==
    /\ last_dispatch.dispatched
    /\ Len(detection_callbacks) = MaxCallbacks
    /\ detection_callbacks[1] \in last_dispatch.raising
    /\ Len(last_dispatch.called) = MaxCallbacks

\* The last step was a request, through _issue_command or stopped by
\* _apply_state_targets, of a command other than the one recorded last
\* for its (device, property) pair; NoEntry stands for a pair without
\* history.
DifferentCommand ==
    /\ Issue.step \in {"issue", "apply"}
    /\ Issue.command \in Commands
    /\ Issue.prev.cmd # Issue.command

\* C38: a request whose command differs from the last command recorded for
\* the (device, property) pair is never suppressed by the debounce or
\* state-refresh window, however recently the previous command was
\* recorded, and a pair with no history is never suppressed.
C38_OnlyIdenticalCommandsDamped ==
    /\ DifferentCommand => ~Suppressed
    /\ Suppressed => Issue.prev # NoEntry

\* A command reached the device inside the debounce window of the opposite
\* command recorded for the same pair.
C38_Witness ==
    /\ DifferentCommand
    /\ Issue.prev.cmd \in Commands
    /\ Issue.now - Issue.prev.time < cfg.debounce_seconds
    /\ Issue.outcome = "sent"

\* The countdown requests _apply_safety_programming makes for the state
\* commanded by the last call.
SafetyRequests ==
    _apply_safety_programming(kasa_outlet, kasa_safety, kasa_result[1].desired,
                              TRUE, TRUE).requests

\* The last call found the outlet in the commanded state, and reading the
\* outlet works: the power command is a no-op.
NoOpCall ==
    /\ KasaCalled
    /\ kasa_result[1].pre_state = kasa_result[1].desired
    /\ kasa_result[1].read = "state"

\* C37: every KasaPowerbar turn_on / turn_off call that returns has applied
\* safety programming for the commanded state, also when the power command
\* was a no-op (command_sent = False); when the power command raises,
\* neither a clear nor an add request is made and the countdown rule
\* programmed earlier is left untouched.
C37_SafetyFollowsCommandedState ==
    /\ (KasaCalled /\ ~kasa_result[1].raised) => kasa_requests = SafetyRequests
    /\ NoOpCall =>
          /\ ~kasa_result[1].raised
          /\ ~kasa_result[1].command_sent
          /\ kasa_requests = SafetyRequests
    /\ (KasaCalled /\ kasa_result[1].raised) => kasa_requests = <<>>

\* A turn_on / turn_off / is_on call on an instance whose initialize has
\* not succeeded raised the RuntimeError of _ensure_initialized.
RaisedUninitialized ==
    /\ kasa_result # <<>> =>
          /\ kasa_result[1].raised
          /\ kasa_result[1].error = "RuntimeError"
          /\ kasa_result[1].cmd_runs = 0
    /\ kasa_requests = <<>>

\* A call leaves the outlet as it was: no power command, no countdown
\* request.
NothingSent ==
    kasa_result' # kasa_result =>
        /\ kasa_outlet' = kasa_outlet
        /\ kasa_requests' = <<>>

\* C40: KasaPowerbar.turn_on, turn_off and is_on called before initialize
\* has completed successfully raise an error, and send neither a power
\* command nor a countdown clear / add request to the outlet.
C40_NoCommandBeforeInitialisation ==
    /\ [](~kasa_initialized => RaisedUninitialized)
    /\ [][~kasa_initialized' => NothingSent]_vars

\* turn_on was called on an instance that is not initialised; the outlet
\* is off and holds the countdown rule it held.
C40_Witness ==
    /\ ~kasa_initialized
    /\ kasa_result # <<>> /\ kasa_result[1].desired = "on"
    /\ kasa_outlet.on = "off" /\ kasa_outlet.rules # <<>>

====
